---- MODULE Spec2Model ----
(***************************************************************************)
(* Editset engine of claude-tools (plugins/refactor, plugins/batch):       *)
(* proposal of content edits, filtering, application with checksum drift   *)
(* detection, and the parallel file-rename lifecycle.                      *)
(*                                                                         *)
(* Text is a sequence of one-character strings.  Offsets are 0-based as in *)
(* the TypeScript source, lines and columns are 1-based.                   *)
(***************************************************************************)
EXTENDS Integers, Sequences, FiniteSets, TLC

VARIABLES
  fs,          \* the working tree: path -> content, or NoFile
  editset,     \* the saved content editset (editset.json)
  base,        \* the working tree as it was when the editset was proposed
  fileEditset, \* the saved FileEditset
  last,        \* the last operation: its inputs and its result
  written,     \* files a real apply of the current proposal wrote and nobody
               \* else wrote since
  consumed,    \* the files of `written` whose content that apply changed
  procs,       \* race specification: the state of each apply process
  splice,      \* splice specification: input, position, content so far
  backends,    \* the backend registry: the list of registered backends
  tty          \* the terminal backend: ttyd servers, sessions, tool calls

vars ==
  <<fs, editset, base, fileEditset, last, written, consumed, procs, splice, backends, tty>>

\* The terminal backend before it is constructed.
NoTty == <<>>

-----------------------------------------------------------------------------
(* Characters and strings *)

\* the element of a one-element set.  An intermediate result that is read
\* more than once is bound as the element of a one-element set, so that it
\* is computed once: The({ body : x \in {e} }) is body with x = e
The(S) == CHOOSE x \in S : TRUE

NL == "\n"
SP == " "

Min(a, b) == IF a < b THEN a ELSE b
Max(a, b) == IF a > b THEN a ELSE b

\* String.prototype.toUpperCase / toLowerCase on one character
UpperC(c) ==
  CASE c = "w" -> "W" [] c = "i" -> "I" [] c = "g" -> "G" [] c = "x" -> "X"
    [] OTHER -> c

LowerC(c) ==
  CASE c = "W" -> "w" [] c = "I" -> "i" [] c = "G" -> "g" [] c = "X" -> "x"
    [] OTHER -> c

toUpperCase(s) == [k \in DOMAIN s |-> UpperC(s[k])]
toLowerCase(s) == [k \in DOMAIN s |-> LowerC(s[k])]

\* String.prototype.slice(a, b) for non-negative a, b: clamps to the length
slice(s, a, b) ==
  LET a1 == Min(Max(a, 0), Len(s))
      b1 == Min(Max(b, 0), Len(s))
  IN IF a1 >= b1 THEN <<>> ELSE SubSeq(s, a1 + 1, b1)

\* index (1-based) of the first NL in s, or 0
FirstNL(s) ==
  IF \E k \in DOMAIN s : s[k] = NL
    THEN CHOOSE k \in DOMAIN s : s[k] = NL /\ \A j \in 1..(k - 1) : s[j] # NL
    ELSE 0

\* content.split("\n")
RECURSIVE split(_)
split(s) ==
  LET k == FirstNL(s)
  IN IF k = 0 THEN <<s>>
     ELSE <<SubSeq(s, 1, k - 1)>> \o split(SubSeq(s, k + 1, Len(s)))

\* sum of (lines[i].length + 1) for i < n
RECURSIVE SumLines(_, _)
SumLines(lines, n) ==
  IF n = 0 THEN 0 ELSE SumLines(lines, n - 1) + Len(lines[n]) + 1

-----------------------------------------------------------------------------
(* Checksums and ids.  SHA-256 is modelled as a collision-free digest: the  *)
(* digest of a value is a tagged copy of that value, truncation is the tag.*)

\* a digest that does not read the content
computeChecksumOfNothing(content) == <<"sha256:12", <<>>>>

\* createHash("sha256").update(content).digest("hex").slice(0, 12)
computeChecksum(content) == <<"sha256:12", content>>

\* digest of `${file}:${startLine}:${startCol}:${endLine}:${endCol}`, 8 hex chars
computeRefId(file, startLine, startCol, endLine, endCol) ==
  <<"sha256:8", file, startLine, startCol, endLine, endCol>>

-----------------------------------------------------------------------------
(* The working tree *)

\* the source files of the project: their names hold the search term
Paths == { <<"w", "i">>, <<"x", "w", "i">> }

\* every path of the tree: the source files and the names they can be renamed to
AllPaths == Paths \cup { <<"g">>, <<"x", "g">> }

\* path order used by String.prototype.localeCompare
PathRank(p) ==
  CASE p = <<"g">> -> 1 [] p = <<"w", "i">> -> 2 [] p = <<"W", "i">> -> 3
    [] p = <<"x", "g">> -> 4 [] p = <<"x", "w", "i">> -> 5 [] OTHER -> 6

NoFile == <<"<ENOENT>">>

\* contents a source file can have: two references on two lines, two
\* references on one line, no reference
Contents ==
  { <<"w", "i", NL, "w", "i">>,
    <<"w", "i", SP, "w", "i">>,
    <<"x">> }

\* the working directory, and the content that marks a directory
Cwd == <<".">>
Dir == <<"<DIR>">>

\* fs.existsSync(path): the working directory exists
existsSync(fsv, p) == p = Cwd \/ (p \in DOMAIN fsv /\ fsv[p] # NoFile)

\* project.getSourceFiles(), rg's walk of "."
SourceFiles(fsv) == {p \in DOMAIN fsv : fsv[p] # NoFile}

\* Array.prototype.sort(cmp): stable, cmp(a, b) < 0 puts a first; c[i][j] is
\* cmp(s[i], s[j])
StableSort(s, c) ==
  LET n == Len(s)
      Before(i, j) == c[i][j] < 0 \/ (c[i][j] = 0 /\ i < j)
      rank(i) == Cardinality({j \in 1..n : Before(j, i)}) + 1
  IN <<>> \o [k \in 1..n |-> s[CHOOSE i \in 1..n : rank(i) = k]]

Reverse(s) == <<>> \o [k \in 1..Len(s) |-> s[Len(s) + 1 - k]]

RECURSIVE Flatten(_)
Flatten(ss) == IF ss = <<>> THEN <<>> ELSE Head(ss) \o Flatten(Tail(ss))

Range(s) == {s[k] : k \in DOMAIN s}

-----------------------------------------------------------------------------
(* Discovery: the AST engine (ts-morph) and the text search (rg) are        *)
(* external; what they return for a content is modelled by scanning it.    *)

IsIdentChar(c) == c # NL /\ c # SP

\* end (exclusive, 0-based) of the identifier starting at offset pos
IdentEnd(s, pos) ==
  CHOOSE e \in (pos + 1)..Len(s) :
    /\ \A k \in (pos + 1)..e : IsIdentChar(s[k])
    /\ (e = Len(s) \/ ~IsIdentChar(s[e + 1]))

\* the identifier nodes of a source text from offset pos on: [off, text]
RECURSIVE Identifiers(_, _)
Identifiers(s, pos) ==
  IF pos >= Len(s) THEN <<>>
  ELSE IF ~IsIdentChar(s[pos + 1]) THEN Identifiers(s, pos + 1)
  ELSE LET e == IdentEnd(s, pos)
       IN <<[off |-> pos, text |-> SubSeq(s, pos + 1, e)]>> \o Identifiers(s, e)

\* node.getStartLineNumber(): 1-based line of a 0-based offset
LineOfOffset(s, off) == 1 + Cardinality({k \in 1..Min(off, Len(s)) : s[k] = NL})

\* compilerNode.getPositionOfLineAndCharacter(line - 1, 0)
LineStart(s, line) == SumLines(split(s), line - 1)

\* offsets (0-based) of the leftmost non-overlapping occurrences of pat in s,
\* from offset pos on
RECURSIVE FindAll(_, _, _)
FindAll(s, pat, pos) ==
  IF pos + Len(pat) > Len(s) \/ Len(pat) = 0 THEN <<>>
  ELSE IF SubSeq(s, pos + 1, pos + Len(pat)) = pat
    THEN <<pos>> \o FindAll(s, pat, pos + Len(pat))
    ELSE FindAll(s, pat, pos + 1)

\* RegExp(pattern, "i").test(name) for a literal pattern
TestCI(pattern, name) == FindAll(toLowerCase(name), toLowerCase(pattern), 0) # <<>>

\* a Reference whose id is digested from the content as well
RefWithContentId(file, range, checksum) ==
  [ refId |-> <<"sha256:8", file, range, checksum>>,
    file |-> file, range |-> range, checksum |-> checksum, selected |-> TRUE ]


\* a Reference (part_003:86-93, part_005:166-173)
Ref(file, range, checksum) ==
  [ refId |-> computeRefId(file, range[1], range[2], range[3], range[4]),
    file |-> file, range |-> range, checksum |-> checksum, selected |-> TRUE ]

\* the files of the tree in walk order
FileSeq(fsv) ==
  LET S == SourceFiles(fsv)
  IN [k \in 1..Cardinality(S) |->
       CHOOSE p \in S : Cardinality({q \in S : PathRank(q) < PathRank(p)}) = k - 1]

\* every identifier node of the project: [file, off, text]
ProjectIdentifiers(fsv) ==
  LET files == FileSeq(fsv)
  IN Flatten([k \in 1..Len(files) |->
       LET ids == Identifiers(fsv[files[k]], 0)
       IN [j \in 1..Len(ids) |-> [file |-> files[k], off |-> ids[j].off, text |-> ids[j].text]]])

SymbolKey(file, line, col, name) == [file |-> file, line |-> line, col |-> col, name |-> name]

\* `ord`: the order in which the engine lists the reference nodes
Orders == {"fwd", "rev"}

\* getReferences(project, symbolKey)
getReferences(fsv, symbolKey, ord) ==
  IF ~existsSync(fsv, symbolKey.file) THEN <<>>
  ELSE
    LET text == fsv[symbolKey.file]
    IN The({
      LET atPos == {k \in 1..Len(all) :
                      /\ all[k].file = symbolKey.file
                      /\ all[k].off <= pos /\ pos < all[k].off + Len(all[k].text)}
      IN IF symbolKey.line > Len(split(text)) \/ atPos = {} THEN <<>>
         ELSE The({
           The({
             <<>> \o [k \in 1..Len(listed) |->
               LET n == listed[k]
                   c == fsv[n.file]
               IN The({
                 LET startCol == n.off - LineStart(c, startLine) + 1
                     endCol == n.off + Len(n.text) - LineStart(c, endLine) + 1
                 IN Ref(n.file, <<startLine, startCol, endLine, endCol>>,
                        computeChecksum(c))
                 : startLine \in {LineOfOffset(c, n.off)},
                   endLine \in {LineOfOffset(c, n.off + Len(n.text))} })]
             : listed \in {IF ord = "rev"
                             THEN Reverse(SelectSeq(all, LAMBDA n : n.text = node.text))
                             ELSE SelectSeq(all, LAMBDA n : n.text = node.text)} })
           : node \in {all[CHOOSE k \in atPos : TRUE]} })
      : pos \in {LineStart(text, symbolKey.line) + symbolKey.col - 1},
        all \in {ProjectIdentifiers(fsv)} })

\* `decl`: which identifier nodes the engine reports as declarations: the
\* first node of each name, or every node (a shorthand binding is a
\* declaration and a reference at once)
Decls == {"first", "all"}

\* findSymbols(project, pattern)
findSymbols(fsv, pattern, decl) ==
  The({
    LET isDecl(k) == decl = "all" \/ \A j \in 1..(k - 1) : all[j].text # all[k].text
    IN The({
      The({
        StableSort(matches, [i \in DOMAIN matches |-> [j \in DOMAIN matches |->
                               matches[j].refCount - matches[i].refCount]])
        : matches \in {<<>> \o [k \in 1..Len(sites) |->
            LET n == sites[k].n
                c == fsv[n.file]
            IN The({
              [ symbolKey |->
                  SymbolKey(n.file, startLine,
                            n.off - LineStart(c, startLine) + 1, n.text),
                name |-> n.text, file |-> n.file, line |-> startLine,
                refCount |-> Len(SelectSeq(all, LAMBDA m : m.text = n.text)) ]
              : startLine \in {LineOfOffset(c, n.off)} })]} })
      : sites \in {SelectSeq([k \in 1..Len(all) |-> [k |-> k, n |-> all[k]]],
                             LAMBDA x : isDecl(x.k) /\ TestCI(pattern, x.n.text))} })
    : all \in {ProjectIdentifiers(fsv)} })

\* the replacement in the casing of the matched text
CasedReplacement(match, replacement) ==
  IF match = toUpperCase(match) /\ Len(match) > 1 THEN toUpperCase(replacement)
  ELSE IF match[1] = UpperC(match[1])
    THEN <<UpperC(replacement[1])>> \o Tail(replacement)
  ELSE toLowerCase(replacement)

\* computeNewName(oldName, pattern, replacement): pattern is a literal with
\* flag "i", replacement is not empty; the first match only is replaced
computeNewName(oldName, pattern, replacement) ==
  LET found == FindAll(toLowerCase(oldName), toLowerCase(pattern), 0)
  IN IF found = <<>> THEN oldName
     ELSE LET at == found[1]
              match == SubSeq(oldName, at + 1, at + Len(pattern))
          IN SubSeq(oldName, 1, at) \o CasedReplacement(match, replacement)
               \o SubSeq(oldName, at + Len(pattern) + 1, Len(oldName))

\* byte offset of (line, col) in content: sum of the preceding line lengths,
\* each plus one for its newline, plus the column
OffsetOf(content, line, col) == SumLines(split(content), line - 1) + (col - 1)

Edit(file, offset, length, replacement) ==
  [file |-> file, offset |-> offset, length |-> length, replacement |-> replacement]

EditCmpAscending(a, b) ==
  IF a.file # b.file THEN PathRank(a.file) - PathRank(b.file)
  ELSE a.offset - b.offset

\* the comparator of the three edit sorts: by file, then by offset descending
EditCmp(a, b) ==
  IF a.file # b.file THEN PathRank(a.file) - PathRank(b.file)
  ELSE b.offset - a.offset

\* edits.sort((a, b) => ...)
SortEdits(edits) ==
  The({ StableSort(es, [i \in DOMAIN es |-> [j \in DOMAIN es |->
                          EditCmp(es[i], es[j])]])
        : es \in {edits} })

\* generateEditsFromRefs(project, refs, oldName, newName)
generateEditsFromRefs(fsv, refs, oldName, newName) ==
  The({
    LET edits == <<>> \o [k \in 1..Len(usable) |->
          LET ref == usable[k]
          IN Edit(ref.file, OffsetOf(fsv[ref.file], ref.range[1], ref.range[2]),
                  Len(oldName), newName)]
    IN SortEdits(edits)
    : usable \in {SelectSeq(refs, LAMBDA r : existsSync(fsv, r.file))} })

\* every element kept
DedupByNothing(s, keys) == s


\* the elements of s whose key is not the key of an earlier element;
\* keys[k] is the key of s[k]
DedupBy(s, keys) ==
  The({ <<>> \o [k \in 1..Cardinality(keep) |->
          s[CHOOSE i \in keep : Cardinality({j \in keep : j < i}) = k - 1]]
        : keep \in {{k \in 1..Len(s) : \A j \in 1..(k - 1) : keys[j] # keys[k]}} })

\* the symbols a batch rename changes
RenamedSymbols(fsv, pattern, replacement, decl) ==
  SelectSeq(findSymbols(fsv, pattern, decl),
            LAMBDA sym : computeNewName(sym.name, pattern, replacement) # sym.name)

\* generateBatchEdits(project, symbols, pattern, replacement)
generateBatchEdits(fsv, pattern, replacement, decl, ord) ==
  The({
    The({
      SortEdits(DedupBy(found, <<>> \o [k \in DOMAIN found |->
                  <<found[k].file, found[k].offset, found[k].length>>]))
      : found \in {Flatten([k \in 1..Len(syms) |->
          The({ generateEditsFromRefs(fsv, refs, syms[k].name,
                  computeNewName(syms[k].name, pattern, replacement))
                : refs \in {getReferences(fsv, syms[k].symbolKey, ord)} })])} })
    : syms \in {RenamedSymbols(fsv, pattern, replacement, decl)} })

\* createRenameProposal(project, symbolKey, newName)
createRenameProposal(fsv, symbolKey, newName, ord) ==
  The({ [ operation |-> "rename", from |-> symbolKey.name, to |-> newName,
          refs |-> refs,
          edits |-> generateEditsFromRefs(fsv, refs, symbolKey.name, newName) ]
        : refs \in {getReferences(fsv, symbolKey, ord)} })

\* createBatchRenameProposal(project, pattern, replacement)
createBatchRenameProposal(fsv, pattern, replacement, decl, ord) ==
  The({
    The({
      [ operation |-> "rename", from |-> pattern, to |-> replacement,
        refs |-> DedupBy(found, <<>> \o [k \in DOMAIN found |-> found[k].refId]),
        edits |-> generateBatchEdits(fsv, pattern, replacement, decl, ord) ]
      : found \in {Flatten([k \in 1..Len(syms) |->
                              getReferences(fsv, syms[k].symbolKey, ord)])} })
    : syms \in {RenamedSymbols(fsv, pattern, replacement, decl)} })

-----------------------------------------------------------------------------
(* Text backend (ripgrep) *)

\* a character outside ASCII: U+00E9, two bytes in UTF-8 and one UTF-16 unit
Eacute == "U+00E9"

\* the bytes of a character in UTF-8
ByteLength(c) == IF c = Eacute THEN 2 ELSE 1

\* the bytes of the first n characters of a text
ByteOffset(text, n) ==
  Cardinality({k \in 1..n : ByteLength(text[k]) = 1})
    + 2 * Cardinality({k \in 1..n : ByteLength(text[k]) = 2})

\* what `rg --json pattern .` reports: one match record per matching line,
\* with the 0-based [start, end) of every submatch in that line, in bytes
runRg(fsv, pattern) ==
  LET files == FileSeq(fsv)
      perFile == [f \in 1..Len(files) |->
        LET lines == split(fsv[files[f]])
            hits == SelectSeq([n \in 1..Len(lines) |->
                       [ path |-> files[f], line_number |-> n,
                         submatches |->
                           LET at == FindAll(lines[n], pattern, 0)
                           IN [k \in 1..Len(at) |->
                                [start |-> ByteOffset(lines[n], at[k]),
                                 end |-> ByteOffset(lines[n], at[k] + Len(pattern))]] ]],
                     LAMBDA m : m.submatches # <<>>)
        IN hits]
  IN Flatten(perFile)

\* parseMatches(matches, pattern)
parseMatches(fsv, matches) ==
  LET usable == SelectSeq(matches, LAMBDA m : existsSync(fsv, m.path))
  IN Flatten([k \in 1..Len(usable) |->
       LET m == usable[k]
       IN [j \in 1..Len(m.submatches) |->
            Ref(m.path,
                <<m.line_number, m.submatches[j].start + 1,
                  m.line_number, m.submatches[j].end + 1>>,
                computeChecksum(fsv[m.path]))]])

\* findPatterns(pattern, glob)
findPatterns(fsv, pattern) == parseMatches(fsv, runRg(fsv, pattern))

\* text.replace(new RegExp(pattern, "g"), replacement) for a literal pattern
RECURSIVE replaceAll(_, _, _)
replaceAll(text, pattern, replacement) ==
  IF Len(pattern) = 0 \/ Len(text) < Len(pattern) THEN text
  ELSE IF SubSeq(text, 1, Len(pattern)) = pattern
    THEN replacement \o replaceAll(SubSeq(text, Len(pattern) + 1, Len(text)), pattern, replacement)
    ELSE <<Head(text)>> \o replaceAll(Tail(text), pattern, replacement)

\* generateEdits(refs, pattern, replacement)
generateEdits(fsv, refs, pattern, replacement) ==
  LET usable == SelectSeq(refs, LAMBDA r : r.selected /\ existsSync(fsv, r.file))
      edits == [k \in 1..Len(usable) |->
        LET ref == usable[k]
            content == fsv[ref.file]
            offset == OffsetOf(content, ref.range[1], ref.range[2])
            matchLength == ref.range[4] - ref.range[2]
            matchedText == slice(content, offset, offset + matchLength)
        IN Edit(ref.file, offset, matchLength, replaceAll(matchedText, pattern, replacement))]
  IN SortEdits(edits)

\* createPatternReplaceProposal(pattern, replacement, glob)
createPatternReplaceProposal(fsv, pattern, replacement) ==
  LET refs == findPatterns(fsv, pattern)
  IN [ operation |-> "rename", from |-> pattern, to |-> replacement,
       refs |-> refs,
       edits |-> generateEdits(fsv, refs, pattern, replacement) ]

-----------------------------------------------------------------------------
(* Editset lifecycle *)

\* an optional list of refIds (include?: string[]): not given, or the set of
\* its elements (the code reads its length and tests membership only)
NotGiven == [given |-> FALSE, ids |-> {}]
Given(ids) == [given |-> TRUE, ids |-> ids]

\* filterEditset whose include step keeps a ref unselected that was unselected
filterEditsetKeepingPrior(es, include, exclude) ==
  LET refs1 == IF include.given /\ include.ids # {}
                 THEN [k \in DOMAIN es.refs |->
                        [es.refs[k] EXCEPT !.selected =
                           es.refs[k].selected /\ es.refs[k].refId \in include.ids]]
                 ELSE es.refs
      refs2 == IF exclude.given /\ exclude.ids # {}
                 THEN [k \in DOMAIN refs1 |->
                        [refs1[k] EXCEPT !.selected =
                           refs1[k].selected /\ refs1[k].refId \notin exclude.ids]]
                 ELSE refs1
      selectedFiles == {refs2[k].file : k \in {j \in DOMAIN refs2 : refs2[j].selected}}
  IN [es EXCEPT !.refs = refs2,
                !.edits = SelectSeq(es.edits, LAMBDA e : e.file \in selectedFiles)]

\* filterEditset that keeps an edit only while every ref of its file is selected
filterEditsetRefGrained(es, include, exclude) ==
  LET refs1 == IF include.given /\ include.ids # {}
                 THEN [k \in DOMAIN es.refs |->
                        [es.refs[k] EXCEPT !.selected = es.refs[k].refId \in include.ids]]
                 ELSE es.refs
      refs2 == IF exclude.given /\ exclude.ids # {}
                 THEN [k \in DOMAIN refs1 |->
                        [refs1[k] EXCEPT !.selected =
                           refs1[k].selected /\ refs1[k].refId \notin exclude.ids]]
                 ELSE refs1
      droppedFiles == {refs2[k].file : k \in {j \in DOMAIN refs2 : ~refs2[j].selected}}
  IN [es EXCEPT !.refs = refs2,
                !.edits = SelectSeq(es.edits, LAMBDA e : e.file \notin droppedFiles)]

\* filterEditset that selects the files by the selection of its input
filterEditsetStaleFiles(es, include, exclude) ==
  LET refs1 == IF include.given /\ include.ids # {}
                 THEN [k \in DOMAIN es.refs |->
                        [es.refs[k] EXCEPT !.selected = es.refs[k].refId \in include.ids]]
                 ELSE es.refs
      refs2 == IF exclude.given /\ exclude.ids # {}
                 THEN [k \in DOMAIN refs1 |->
                        [refs1[k] EXCEPT !.selected =
                           refs1[k].selected /\ refs1[k].refId \notin exclude.ids]]
                 ELSE refs1
      selectedFiles == {es.refs[k].file : k \in {j \in DOMAIN es.refs : es.refs[j].selected}}
  IN [es EXCEPT !.refs = refs2,
                !.edits = SelectSeq(es.edits, LAMBDA e : e.file \in selectedFiles)]

\* filterEditset(editset, include, exclude)
filterEditset(es, include, exclude) ==
  LET refs1 == IF include.given /\ include.ids # {}
                 THEN [k \in DOMAIN es.refs |->
                        [es.refs[k] EXCEPT !.selected = es.refs[k].refId \in include.ids]]
                 ELSE es.refs
      refs2 == IF exclude.given /\ exclude.ids # {}
                 THEN [k \in DOMAIN refs1 |->
                        [refs1[k] EXCEPT !.selected =
                           refs1[k].selected /\ refs1[k].refId \notin exclude.ids]]
                 ELSE refs1
      selectedFiles == {refs2[k].file : k \in {j \in DOMAIN refs2 : refs2[j].selected}}
  IN [es EXCEPT !.refs = refs2,
                !.edits = SelectSeq(es.edits, LAMBDA e : e.file \in selectedFiles)]

RECURSIVE SumSeq(_)
SumSeq(s) == IF s = <<>> THEN 0 ELSE Head(s) + SumSeq(Tail(s))

\* the files of the edits, in order of first appearance (edits grouped by file)
EditFiles(es) ==
  LET files == [k \in 1..Len(es.edits) |-> es.edits[k].file]
  IN DedupBy(files, files)

EditsOf(es, f) == SelectSeq(es.edits, LAMBDA e : e.file = f)

NoChecksum == <<"none", <<>>>>

\* the checksum recorded at discovery time for a file: that of its references
RecordedChecksum(es, f) ==
  LET rs == SelectSeq(es.refs, LAMBDA r : r.file = f)
  IN IF rs = <<>> THEN NoChecksum ELSE rs[1].checksum

\* a splice that resumes after the replacement's length, not the span's
ApplyEditResumingAfterReplacement(content, e) ==
  slice(content, 0, e.offset) \o e.replacement
    \o slice(content, e.offset + Len(e.replacement), Len(content))

\* one edit: content before offset + replacement + content after offset+length
ApplyEdit(content, e) ==
  slice(content, 0, e.offset) \o e.replacement
    \o slice(content, e.offset + e.length, Len(content))

\* the edits of one file applied one after another in list order
RECURSIVE ApplyEdits(_, _)
ApplyEdits(content, edits) ==
  IF edits = <<>> THEN content
  ELSE ApplyEdits(ApplyEdit(content, Head(edits)), Tail(edits))

\* the drift check of apply: the file is gone, or its current checksum is not
\* the recorded one
Drifted(fsv, es, f) ==
  ~existsSync(fsv, f) \/ computeChecksum(fsv[f]) # RecordedChecksum(es, f)

\* applyEditset(editset, dryRun): the tree afterwards and the result
applyEditset(fsv, es, dryRun) ==
  LET files == EditFiles(es)
      ok == SelectSeq(files, LAMBDA f : ~Drifted(fsv, es, f))
      bad == SelectSeq(files, LAMBDA f : Drifted(fsv, es, f))
  IN [ fs |-> [p \in DOMAIN fsv |->
                 IF p \in Range(ok) /\ ~dryRun
                   THEN ApplyEdits(fsv[p], EditsOf(es, p)) ELSE fsv[p]],
       applied |-> SumSeq([k \in 1..Len(ok) |-> Len(EditsOf(es, ok[k]))]),
       skipped |-> SumSeq([k \in 1..Len(bad) |-> Len(EditsOf(es, bad[k]))]),
       driftDetected |-> bad ]

\* the distinct files the references of an editset name, in list order
RefFiles(es) ==
  The({ DedupBy(files, files)
        : files \in {<<>> \o [k \in 1..Len(es.refs) |-> es.refs[k].file]} })

\* verifyEditset(editset): one issue for each referenced file that is gone
\* or whose checksum is not the recorded one
verifyEditset(fsv, es) ==
  The({ [ valid |-> bad = <<>>,
          issues |-> <<>> \o [k \in 1..Len(bad) |->
                       IF ~existsSync(fsv, bad[k])
                         THEN <<bad[k], "not found">>
                         ELSE <<bad[k], "checksum mismatch">>] ]
        : bad \in {SelectSeq(RefFiles(es), LAMBDA f : Drifted(fsv, es, f))} })

-----------------------------------------------------------------------------
(* The CLI as a state machine: one action per command, plus other writers   *)
(* of the working tree.                                                     *)

\* the search term and the replacement roots of the renames
Pattern == <<"w", "i">>
Replacements == { <<"w", "i">>, <<"g">> }

EmptyEditset ==
  [operation |-> "none", from |-> <<>>, to |-> <<>>, refs |-> <<>>, edits |-> <<>>]

EmptyFileEditset == [operation |-> "none", fileOps |-> <<>>]

NoResult == [applied |-> 0, skipped |-> 0, driftDetected |-> <<>>, errors |-> <<>>]

Op(op, dryRun, input, include, exclude, res) ==
  [ op |-> op, dryRun |-> dryRun, input |-> input,
    include |-> include, exclude |-> exclude, res |-> res ]

NoOp == Op("none", FALSE, EmptyEditset, NotGiven, NotGiven, NoResult)

Propose(es) ==
  /\ editset' = es
  /\ base' = fs
  /\ last' = Op("propose", FALSE, EmptyEditset, NotGiven, NotGiven, NoResult)
  /\ written' = {}
  /\ consumed' = {}
  /\ UNCHANGED <<fs, fileEditset, procs, splice, backends, tty>>

\* a tree with the source files and none of the rename targets
SourceTrees ==
  {t \in [AllPaths -> Contents \cup {NoFile}] :
     \A p \in AllPaths : (t[p] = NoFile) <=> (p \notin Paths)}

\* what rename.propose can save for a tree: any symbol of the project that
\* matches the search term, any new name, any listing order of the engine
RenameProposals(fsv) ==
  LET syms == findSymbols(fsv, Pattern, "first")
  IN { createRenameProposal(fsv, syms[k].symbolKey, to, ord) :
         k \in DOMAIN syms, to \in Replacements, ord \in Orders }

\* what rename.batch can save for a tree
BatchProposals(fsv) ==
  { createBatchRenameProposal(fsv, Pattern, to, arg[1], arg[2]) :
      to \in Replacements, arg \in Decls \X Orders }

\* what pattern.replace can save for a tree
PatternProposals(fsv) ==
  { createPatternReplaceProposal(fsv, Pattern, to) : to \in Replacements }

\* the proposals for the current tree
Proposals(fsv) ==
  [ rename |-> RenameProposals(fsv), batch |-> BatchProposals(fsv),
    pattern |-> PatternProposals(fsv) ]

\* rename.propose <symbolKey> <newName>
RenamePropose == \E es \in Proposals(fs).rename : Propose(es)

\* rename.batch --pattern <p> --replace <r>
RenameBatch == \E es \in Proposals(fs).batch : Propose(es)

\* pattern.replace --pattern <p> --replace <r> --backend ripgrep
PatternReplace == \E es \in Proposals(fs).pattern : Propose(es)

\* editset.apply <file> [--dry-run]; what apply does with a file that is gone
\* is not in the sources, the command is modelled for files that exist
EditsetApply ==
  /\ editset.operation # "none"
  /\ \A f \in Range(EditFiles(editset)) : existsSync(fs, f)
  /\ \E dryRun \in BOOLEAN :
       LET r == applyEditset(fs, editset, dryRun)
           wrote == IF dryRun THEN {}
                    ELSE {f \in Range(EditFiles(editset)) : ~Drifted(fs, editset, f)}
       IN /\ fs' = r.fs
          /\ last' = Op("apply", dryRun, EmptyEditset, NotGiven, NotGiven,
                        [ applied |-> r.applied, skipped |-> r.skipped,
                          driftDetected |-> r.driftDetected, errors |-> <<>> ])
          /\ written' = written \cup wrote
          /\ consumed' = consumed \cup {f \in wrote : r.fs[f] # fs[f]}
  /\ UNCHANGED <<editset, base, fileEditset, procs, splice, backends, tty>>

\* another program rewrites a source file
ExternalWrite ==
  \E p \in Paths, c \in Contents :
    /\ fs[p] # NoFile
    /\ fs[p] # c
    /\ fs' = [fs EXCEPT ![p] = c]
    /\ last' = Op("external", FALSE, EmptyEditset, NotGiven, NotGiven, NoResult)
    /\ written' = written \ {p}
    /\ consumed' = consumed \ {p}
    /\ UNCHANGED <<editset, base, fileEditset, procs, splice, backends, tty>>

InitApply ==
  /\ fs \in SourceTrees
  /\ editset = EmptyEditset
  /\ base = fs
  /\ fileEditset = EmptyFileEditset
  /\ last = NoOp
  /\ written = {}
  /\ backends = <<>>
  /\ tty = NoTty
  /\ consumed = {}
  /\ procs = <<>>
  /\ splice = <<>>

NextApply ==
  \/ RenamePropose
  \/ RenameBatch
  \/ PatternReplace
  \/ EditsetApply
  \/ ExternalWrite

\* propose, apply and other writers, one command at a time
SpecApply == InitApply /\ [][NextApply]_vars

-----------------------------------------------------------------------------
(* Properties of propose / apply / other writers (SpecApply) *)

\* every span [offset, offset+length) of `content` replaced at once; the
\* edits are in descending offset order and do not overlap
ReplaceSpans(content, edits) ==
  LET asc == Reverse(edits)
      n == Len(asc)
      prevEnd(k) == IF k = 1 THEN 0 ELSE asc[k - 1].offset + asc[k - 1].length
      piece(k) == slice(content, prevEnd(k), asc[k].offset) \o asc[k].replacement
      tailFrom == IF n = 0 THEN 0 ELSE asc[n].offset + asc[n].length
  IN Flatten([k \in 1..n |-> piece(k)]) \o slice(content, tailFrom, Len(content))

\* number of edits of the editset in the files of S
EditCount(es, S) == Len(SelectSeq(es.edits, LAMBDA e : e.file \in S))

\* the files of the editset whose content is not the one they had at proposal
ChangedSinceProposal == {f \in Range(EditFiles(editset)) : fs[f] # base[f]}

\* C2: in an apply of an editset, a file whose content differs from its
\* content at proposal time is left as it is, all its edits are counted in
\* skipped and it is recorded in driftDetected; every other file of the
\* editset has all its edits applied (counted, and written unless dry run).
C2_DriftBlocksApplication ==
  [][ last'.op = "apply" =>
        LET changed == ChangedSinceProposal
            same == Range(EditFiles(editset)) \ changed
        IN /\ \A f \in changed : fs'[f] = fs[f]
           /\ Range(last'.res.driftDetected) = changed
           /\ last'.res.skipped = EditCount(editset, changed)
           /\ last'.res.applied = EditCount(editset, same)
           /\ ~last'.dryRun =>
                \A f \in same : fs'[f] = ReplaceSpans(base[f], EditsOf(editset, f))
    ]_vars

\* C2 happens: a real apply skipped a drifted file and changed another file
C2_Witness ==
  /\ last.op = "apply"
  /\ ~last.dryRun
  /\ last.res.skipped > 0
  /\ last.res.driftDetected # <<>>
  /\ \E f \in consumed : f \notin Range(last.res.driftDetected)

\* C5 as stated: once a real apply has applied the editset's edits to a file
\* (and nobody else wrote it since), every later apply of the same editset
\* reports that file as drifted, skips its edits and leaves the file.
C5_SecondApplyAlwaysSkips ==
  [][ last'.op = "apply" =>
        \A f \in written :
          /\ f \in Range(last'.res.driftDetected)
          /\ fs'[f] = fs[f]
    ]_vars

\* C5: once a real apply has changed a file by the editset's edits, every
\* later apply of the same editset reports that file as drifted, counts its
\* edits as skipped and leaves it; a file whose edits left its content
\* unchanged passes the check again and stays as the first apply left it.
C5_ConsumedAtMostOnce ==
  [][ last'.op = "apply" =>
        /\ \A f \in written : fs'[f] = fs[f]
        /\ \A f \in consumed : f \in Range(last'.res.driftDetected)
        /\ last'.res.skipped >= EditCount(editset, consumed)
    ]_vars

\* C5 happens: a second apply found a file the first apply had changed
C5_Witness ==
  /\ last.op = "apply"
  /\ consumed # {}
  /\ \E f \in consumed : f \in Range(last.res.driftDetected)

-----------------------------------------------------------------------------
(* filterEditset as a function of its inputs (SpecFilter): the editset is   *)
(* one a proposer saved, possibly narrowed before; the lists are any lists *)
(* of at most MaxIds refIds, of the editset or not.                        *)

MaxIds == 2

\* a refId of no reference of the project
ForeignRefId == computeRefId(<<"n">>, 1, 1, 1, 2)

RefIds(es) == {es.refs[k].refId : k \in DOMAIN es.refs}

\* the values of an optional --include / --exclude list
IdLists(es) ==
  {NotGiven} \cup
    {Given(S) : S \in {T \in SUBSET (RefIds(es) \cup {ForeignRefId}) :
                         Cardinality(T) <= MaxIds}}

\* the editsets a proposer saves for a tree that change something, and what
\* an earlier exclusion of one ref makes of them
FilterInputs(t) ==
  LET P == Proposals(t)
      saved == {e \in P.rename \cup P.batch \cup P.pattern : e.to # e.from}
  IN saved \cup
       UNION {{filterEditset(e, NotGiven, Given({id})) : id \in RefIds(e)} : e \in saved}

InitFilter ==
  /\ fs \in SourceTrees
  /\ editset \in FilterInputs(fs)
  /\ base = fs
  /\ fileEditset = EmptyFileEditset
  /\ last \in {Op("input", FALSE, EmptyEditset, inc, exc, NoResult) :
                 inc \in IdLists(editset), exc \in IdLists(editset)}
  /\ written = {}
  /\ backends = <<>>
  /\ tty = NoTty
  /\ consumed = {}
  /\ procs = <<>>
  /\ splice = <<>>

\* filtered = filterEditset(editset, include, exclude)
Filter ==
  /\ last.op = "input"
  /\ editset' = filterEditset(editset, last.include, last.exclude)
  /\ last' = [last EXCEPT !.op = "select", !.input = editset]
  /\ UNCHANGED <<fs, base, fileEditset, written, consumed, procs, splice, backends, tty>>

\* the result filtered again with the same lists
FilterAgain ==
  /\ last.op = "select"
  /\ editset' = filterEditset(editset, last.include, last.exclude)
  /\ last' = [last EXCEPT !.op = "reselect", !.input = editset]
  /\ UNCHANGED <<fs, base, fileEditset, written, consumed, procs, splice, backends, tty>>

NextFilter ==
  \/ Filter
  \/ FilterAgain

SpecFilter == InitFilter /\ [][NextFilter]_vars

-----------------------------------------------------------------------------
(* Properties of filterEditset (SpecFilter) *)

\* the ids of a list, none when the list is not given
IdsOf(list) == IF list.given THEN list.ids ELSE {}

\* the files that have a selected ref
SelectedFiles(es) == {es.refs[k].file : k \in {j \in DOMAIN es.refs : es.refs[j].selected}}

\* the refIds of the selected refs
SelectedIds(es) == {es.refs[k].refId : k \in {j \in DOMAIN es.refs : es.refs[j].selected}}

\* C6: in every editset a proposer produced and in every editset filterEditset
\* returned from one, the edits of any one file are in order of
\* non-increasing offset.
C6_EditsDescendingPerFile ==
  \A i, j \in DOMAIN editset.edits :
    (i < j /\ editset.edits[i].file = editset.edits[j].file)
      => editset.edits[i].offset >= editset.edits[j].offset

\* C6 happens: a filtered editset keeps two edits of one file at two offsets
C6_Witness ==
  /\ last.op = "select"
  /\ \E i, j \in DOMAIN editset.edits :
       /\ i < j
       /\ editset.edits[i].file = editset.edits[j].file
       /\ editset.edits[i].offset > editset.edits[j].offset

\* C8 as stated: whenever an include list is given, a ref is selected
\* afterwards iff its refId is in it (and not in the exclude list); with only
\* an exclude list a ref stays selected iff it was selected and is not excluded.
C8_IncludeGivenDecides ==
  last.op = "select" =>
    \A k \in DOMAIN editset.refs :
      LET id == editset.refs[k].refId
      IN editset.refs[k].selected <=>
           IF last.include.given
             THEN id \in last.include.ids /\ id \notin IdsOf(last.exclude)
             ELSE last.input.refs[k].selected /\ id \notin IdsOf(last.exclude)

\* C8: when an include list with at least one refId is given, a ref is
\* selected afterwards iff its refId is in it, whatever it was before, and not
\* in the exclude list; when no include list is given, or an empty one, a ref
\* stays selected iff it was selected before and is not in the exclude list.
C8_SelectionSemantics ==
  last.op = "select" =>
    /\ Len(editset.refs) = Len(last.input.refs)
    /\ \A k \in DOMAIN editset.refs :
         LET id == editset.refs[k].refId
         IN /\ id = last.input.refs[k].refId
            /\ editset.refs[k].selected <=>
                 IF last.include.given /\ last.include.ids # {}
                   THEN id \in last.include.ids /\ id \notin IdsOf(last.exclude)
                   ELSE last.input.refs[k].selected /\ id \notin IdsOf(last.exclude)

\* C8 happens: an include list selected a ref that was unselected, and the
\* exclude list unselected a ref of the include list
C8_Witness ==
  /\ last.op = "select"
  /\ last.include.given
  /\ last.exclude.given
  /\ \E k \in DOMAIN editset.refs :
       ~last.input.refs[k].selected /\ editset.refs[k].selected
  /\ \E k \in DOMAIN editset.refs :
       /\ editset.refs[k].refId \in last.include.ids \cap last.exclude.ids
       /\ ~editset.refs[k].selected

C10_FilterIdempotent ==
  last.op = "reselect" =>
    /\ SelectedIds(editset) = SelectedIds(last.input)
    /\ editset.refs = last.input.refs
    /\ editset.edits = last.input.edits

\* C10 happens: a second filtering with the same non-empty include list, of
\* a result with selected and unselected refs and with edits
C10_Witness ==
  /\ last.op = "reselect"
  /\ last.include.given
  /\ last.include.ids # {}
  /\ SelectedIds(editset) # {}
  /\ \E k \in DOMAIN editset.refs : ~editset.refs[k].selected
  /\ editset.edits # <<>>

-----------------------------------------------------------------------------
(* The splice loop of apply on one file (SpecSplice): any content of at     *)
(* most MaxLen characters, any list of at most MaxEdits edits of it that   *)
(* do not overlap and are in descending offset order.                      *)

MaxLen == 3
MaxEdits == 2

SpliceChars == {"a", "b"}

\* replacements shorter than, as long as and longer than a one-character span
SpliceReplacements == { <<>>, <<"r">>, <<"r", "r">> }

SpliceFile == <<"w", "i">>

SpliceContents == UNION {[1..n -> SpliceChars] : n \in 0..MaxLen}

\* the edits inside a content of n characters, insertions included
SpliceEdits(n) ==
  {Edit(SpliceFile, ol[1], ol[2], r) :
     ol \in {x \in (0..n) \X (0..n) : x[1] + x[2] <= n}, r \in SpliceReplacements}

\* each edit ends at or before the offset of the edit listed before it, and
\* starts before it
EditLists(n) ==
  UNION {{s \in [1..m -> SpliceEdits(n)] :
            \A k \in 1..(m - 1) :
              /\ s[k + 1].offset + s[k + 1].length <= s[k].offset
              /\ s[k + 1].offset < s[k].offset} : m \in 0..MaxEdits}

EditListTable == [n \in 0..MaxLen |-> EditLists(n)]

InitSplice ==
  /\ \E content \in SpliceContents :
       /\ fs = [p \in AllPaths |-> IF p = SpliceFile THEN content ELSE NoFile]
       /\ \E edits \in EditListTable[Len(content)] :
            splice = [content |-> content, edits |-> edits, pos |-> 0, cur |-> content]
  /\ editset = EmptyEditset
  /\ base = fs
  /\ fileEditset = EmptyFileEditset
  /\ last = NoOp
  /\ written = {}
  /\ backends = <<>>
  /\ tty = NoTty
  /\ consumed = {}
  /\ procs = <<>>

\* one turn of the loop over the file's edits
SpliceStep ==
  /\ splice.pos < Len(splice.edits)
  /\ splice' = [splice EXCEPT !.pos = @ + 1,
                              !.cur = ApplyEdit(@, splice.edits[splice.pos + 1])]
  /\ UNCHANGED <<fs, editset, base, fileEditset, last,
                 written, consumed, procs, backends, tty>>

\* the file written back in one operation when the loop is over
SpliceWrite ==
  /\ splice.pos = Len(splice.edits)
  /\ fs[SpliceFile] # splice.cur
  /\ fs' = [fs EXCEPT ![SpliceFile] = splice.cur]
  /\ UNCHANGED <<editset, base, fileEditset, last,
                 written, consumed, procs, splice, backends, tty>>

NextSplice ==
  \/ SpliceStep
  \/ SpliceWrite

SpecSplice == InitSplice /\ [][NextSplice]_vars

\* the span of edit e in a content
SpanOf(content, e) == slice(content, e.offset, e.offset + e.length)

\* C7: applying the edits one after another in list order gives the content
\* in which every edit's original span is replaced at once; while edits are
\* pending, the content up to the end of each pending edit's span is still
\* the original, so no offset is invalidated by the edits applied before.
C7_SequentialIsSimultaneous ==
  /\ splice.cur = ReplaceSpans(splice.content, SubSeq(splice.edits, 1, splice.pos))
  /\ ApplyEdits(splice.content, splice.edits) = ReplaceSpans(splice.content, splice.edits)
  /\ \A k \in (splice.pos + 1)..Len(splice.edits) :
       LET e == splice.edits[k]
       IN /\ SpanOf(splice.cur, e) = SpanOf(splice.content, e)
          /\ slice(splice.cur, 0, e.offset) = slice(splice.content, 0, e.offset)
  /\ fs[SpliceFile] \in {splice.content, ReplaceSpans(splice.content, splice.edits)}

\* C7 happens: two adjacent edits were applied, the first changed the length
C7_Witness ==
  /\ Len(splice.edits) = 2
  /\ splice.pos = 2
  /\ splice.edits[2].offset + splice.edits[2].length = splice.edits[1].offset
  /\ splice.edits[2].length > 0
  /\ Len(splice.edits[1].replacement) # splice.edits[1].length
  /\ fs[SpliceFile] = splice.cur
  /\ splice.cur # splice.content

-----------------------------------------------------------------------------
(* Concurrent writers (SpecRace): two apply processes, each working from an *)
(* editset proposed against the same tree, and another program writing the *)
(* files.  An apply process reads and checks a file in one step and writes *)
(* it back in a later step; nothing holds the file in between.             *)

\* the editsets with edits that the proposers save for a tree
RaceEditsets(t) ==
  LET P == Proposals(t)
  IN {e \in P.rename \cup P.batch \cup P.pattern : e.to # e.from /\ e.edits # <<>>}

Proc(es) ==
  [ es |-> es, files |-> EditFiles(es), idx |-> 1,
    pc |-> IF es.edits = <<>> THEN "done" ELSE "check",
    buf |-> <<>>, applied |-> 0, skipped |-> 0, driftDetected |-> <<>> ]

\* the file a process is working on
CurFile(pr) == pr.files[pr.idx]

\* on to the next file of the editset, or done
Advance(pr) ==
  [pr EXCEPT !.idx = @ + 1,
             !.pc = IF pr.idx = Len(pr.files) THEN "done" ELSE "check",
             !.buf = <<>>]

InitRace ==
  /\ fs \in SourceTrees
  /\ base = fs
  /\ editset \in RaceEditsets(fs)
  /\ \E es2 \in RaceEditsets(fs) : procs = <<Proc(editset), Proc(es2)>>
  /\ fileEditset = EmptyFileEditset
  /\ last = NoOp
  /\ written = {}
  /\ backends = <<>>
  /\ tty = NoTty
  /\ consumed = {}
  /\ splice = <<>>

\* process i reads its current file and finds it drifted: skip its edits
ApplyCheckDrift(i) ==
  LET pr == procs[i]
      f == CurFile(pr)
  IN /\ pr.pc = "check"
     /\ Drifted(fs, pr.es, f)
     /\ procs' = [procs EXCEPT ![i] =
          Advance([pr EXCEPT !.skipped = @ + Len(EditsOf(pr.es, f)),
                             !.driftDetected = Append(@, f)])]
     /\ last' = Op("check", FALSE, EmptyEditset, NotGiven, NotGiven, NoResult)
     /\ UNCHANGED <<fs, editset, base, fileEditset,
                    written, consumed, splice, backends, tty>>

\* process i reads its current file, the checksum matches: splice in memory
ApplyCheckPass(i) ==
  LET pr == procs[i]
      f == CurFile(pr)
  IN /\ pr.pc = "check"
     /\ ~Drifted(fs, pr.es, f)
     /\ procs' = [procs EXCEPT ![i] =
          [pr EXCEPT !.pc = "write",
                     !.buf = ApplyEdits(fs[f], EditsOf(pr.es, f)),
                     !.applied = @ + Len(EditsOf(pr.es, f))]]
     /\ last' = Op("check", FALSE, EmptyEditset, NotGiven, NotGiven, NoResult)
     /\ UNCHANGED <<fs, editset, base, fileEditset,
                    written, consumed, splice, backends, tty>>

\* process i writes the whole file back
ApplyWrite(i) ==
  LET pr == procs[i]
      f == CurFile(pr)
  IN /\ pr.pc = "write"
     /\ fs' = [fs EXCEPT ![f] = pr.buf]
     /\ procs' = [procs EXCEPT ![i] = Advance(pr)]
     /\ last' = Op("write", FALSE, EmptyEditset, NotGiven, NotGiven, NoResult)
     /\ written' = written \cup {f}
     /\ consumed' = consumed \cup {g \in {f} : pr.buf # fs[f]}
     /\ UNCHANGED <<editset, base, fileEditset, splice, backends, tty>>

NextRace ==
  \/ \E i \in DOMAIN procs : ApplyCheckDrift(i)
  \/ \E i \in DOMAIN procs : ApplyCheckPass(i)
  \/ \E i \in DOMAIN procs : ApplyWrite(i)
  \/ ExternalWrite

SpecRace == InitRace /\ [][NextRace]_vars

\* C1: an apply process writes a file only while the file still has the
\* content its editset was proposed against; once the file has changed, no
\* apply writes it and the content of the other writer stays.
C1_NeverWritesOverChangedContent ==
  [][ \A i \in DOMAIN procs :
        (procs[i].pc = "write" /\ procs'[i] # procs[i]) =>
          fs[CurFile(procs[i])] = base[CurFile(procs[i])]
    ]_vars

-----------------------------------------------------------------------------
(* File renames (file-ops.ts).  All files are in the working directory, so  *)
(* a path is its basename and the directory of every target exists.        *)

\* createHash("sha256").update(content).digest("hex").slice(0, 16)
fileChecksum(fsv, filePath) == <<"sha256:16", fsv[filePath]>>

\* generateOpId(oldPath, newPath)
generateOpId(oldPath, newPath) == <<"file-", oldPath, newPath>>

\* the callback of applyReplacement: the replacement in the casing of the match
PreserveCase(match, replacement) ==
  IF match = toUpperCase(match) THEN toUpperCase(replacement)
  ELSE IF match[1] = UpperC(match[1])
    THEN <<UpperC(replacement[1])>> \o Tail(replacement)
  ELSE replacement

\* applyReplacement(filename, pattern, replacement) for a string pattern:
\* every case-insensitive match is replaced
RECURSIVE applyReplacement(_, _, _)
applyReplacement(filename, pattern, replacement) ==
  IF Len(pattern) = 0 \/ Len(filename) < Len(pattern) THEN filename
  ELSE IF toLowerCase(SubSeq(filename, 1, Len(pattern))) = toLowerCase(pattern)
    THEN PreserveCase(SubSeq(filename, 1, Len(pattern)), replacement)
           \o applyReplacement(SubSeq(filename, Len(pattern) + 1, Len(filename)),
                               pattern, replacement)
    ELSE <<Head(filename)>> \o applyReplacement(Tail(filename), pattern, replacement)

FileOp(oldPath, newPath, checksum) ==
  [ opId |-> generateOpId(oldPath, newPath), type |-> "rename",
    oldPath |-> oldPath, newPath |-> newPath, checksum |-> checksum ]

\* findFilesToRename(pattern, replacement, glob, cwd): the scan lists the
\* files in an order of its own
findFilesToRename(fsv, pattern, replacement, ord) ==
  LET listed == IF ord = "fwd" THEN FileSeq(fsv) ELSE Reverse(FileSeq(fsv))
      hits == SelectSeq(listed, LAMBDA file :
                /\ TestCI(pattern, file)
                /\ applyReplacement(file, pattern, replacement) # file)
  IN [k \in 1..Len(hits) |->
       FileOp(hits[k], applyReplacement(hits[k], pattern, replacement),
              fileChecksum(fsv, hits[k]))]

Conflict(op, reason) == [oldPath |-> op.oldPath, newPath |-> op.newPath, reason |-> reason]

\* checkFileConflicts(fileOps, cwd) over the first n ops
RECURSIVE checkFileConflictsUpTo(_, _, _)
checkFileConflictsUpTo(fsv, fileOps, n) ==
  IF n = 0 THEN [conflicts |-> <<>>, safe |-> <<>>]
  ELSE LET r == checkFileConflictsUpTo(fsv, fileOps, n - 1)
           op == fileOps[n]
           targetPaths == {r.safe[k].newPath : k \in DOMAIN r.safe}
       IN IF existsSync(fsv, op.newPath)
               /\ toLowerCase(op.oldPath) # toLowerCase(op.newPath)
            THEN [r EXCEPT !.conflicts = Append(@, Conflict(op, "target_exists"))]
          ELSE IF op.newPath \in targetPaths
            THEN [r EXCEPT !.conflicts = Append(@, Conflict(op, "target_exists"))]
          ELSE IF op.oldPath = op.newPath
            THEN [r EXCEPT !.conflicts = Append(@, Conflict(op, "same_path"))]
          ELSE [r EXCEPT !.safe = Append(@, op)]

checkFileConflicts(fsv, fileOps) == checkFileConflictsUpTo(fsv, fileOps, Len(fileOps))

\* createFileRenameProposal(pattern, replacement, glob, cwd)
createFileRenameProposal(fsv, pattern, replacement, ord) ==
  LET fileOps == findFilesToRename(fsv, pattern, replacement, ord)
      report == checkFileConflicts(fsv, fileOps)
  IN [ operation |-> "file-rename", pattern |-> pattern, replacement |-> replacement,
       fileOps |-> report.safe, importEdits |-> <<>> ]

\* the re-check of one op: its source is gone, or its content has changed
OpMissing(fsv, op) == ~existsSync(fsv, op.oldPath)
OpChanged(fsv, op) == existsSync(fsv, op.oldPath) /\ fileChecksum(fsv, op.oldPath) # op.checksum

\* verifyFileEditset that only looks whether the source is there
verifyFileEditsetExistenceOnly(fsv, es) ==
  LET bad == SelectSeq(es.fileOps, LAMBDA op : OpMissing(fsv, op))
      drifted == [k \in 1..Len(bad) |-> <<bad[k].oldPath, "file no longer exists">>]
  IN [valid |-> drifted = <<>>, drifted |-> drifted]

\* verifyFileEditset(editset, cwd)
verifyFileEditset(fsv, es) ==
  LET bad == SelectSeq(es.fileOps, LAMBDA op : OpMissing(fsv, op) \/ OpChanged(fsv, op))
      drifted == [k \in 1..Len(bad) |->
                   IF OpMissing(fsv, bad[k])
                     THEN <<bad[k].oldPath, "file no longer exists">>
                     ELSE <<bad[k].oldPath, "checksum mismatch (file changed)">>]
  IN [valid |-> drifted = <<>>, drifted |-> drifted]

\* path.dirname(p)
dirname(p) ==
  IF \E k \in DOMAIN p : p[k] = "/"
    THEN SubSeq(p, 1, (CHOOSE k \in DOMAIN p :
                         p[k] = "/" /\ \A j \in (k + 1)..Len(p) : p[j] # "/") - 1)
    ELSE Cwd

\* fs.mkdirSync(dir, { recursive: true }) when it succeeds
mkdirSync(fsv, dir) == [fsv EXCEPT ![dir] = Dir]

\* the OS calls that fail during one applyFileRenames: the sources whose
\* renameSync throws, the directories whose mkdirSync throws
NoFaults == [rename |-> {}, mkdir |-> {}]

\* fs.renameSync(oldPath, newPath) on regular files
renameSync(fsv, oldPath, newPath) ==
  IF oldPath = newPath THEN fsv
  ELSE [fsv EXCEPT ![newPath] = fsv[oldPath], ![oldPath] = NoFile]

\* applyFileRenames that renames in a dry run too
RECURSIVE applyFileRenamesIgnoringDryRun(_, _, _, _, _)
applyFileRenamesIgnoringDryRun(fsv, es, dryRun, throws, n) ==
  IF n = 0
    THEN [fs |-> fsv, applied |-> 0, skipped |-> 0, errors |-> <<>>, thrown |-> FALSE]
  ELSE LET r == applyFileRenamesIgnoringDryRun(fsv, es, dryRun, throws, n - 1)
           op == es.fileOps[n]
           targetDir == dirname(op.newPath)
       IN IF r.thrown THEN r
          ELSE IF ~existsSync(r.fs, op.oldPath)
            THEN [r EXCEPT !.errors = Append(@, <<op.oldPath, "file no longer exists">>),
                           !.skipped = @ + 1]
          ELSE IF fileChecksum(r.fs, op.oldPath) # op.checksum
            THEN [r EXCEPT !.errors = Append(@, <<op.oldPath, "checksum mismatch, skipping">>),
                           !.skipped = @ + 1]
          ELSE IF ~existsSync(r.fs, targetDir) /\ targetDir \in throws.mkdir
            THEN [r EXCEPT !.thrown = TRUE]
          ELSE LET made == IF ~existsSync(r.fs, targetDir)
                             THEN mkdirSync(r.fs, targetDir) ELSE r.fs
               IN IF op.oldPath \in throws.rename
                    THEN [r EXCEPT !.fs = made,
                                   !.errors = Append(@, <<op.oldPath, "rename failed">>),
                                   !.skipped = @ + 1]
                    ELSE [r EXCEPT !.fs = renameSync(made, op.oldPath, op.newPath),
                                   !.applied = @ + 1]

\* applyFileRenames that renames without the checksum re-check
RECURSIVE applyFileRenamesUnchecked(_, _, _, _, _)
applyFileRenamesUnchecked(fsv, es, dryRun, throws, n) ==
  IF n = 0
    THEN [fs |-> fsv, applied |-> 0, skipped |-> 0, errors |-> <<>>, thrown |-> FALSE]
  ELSE LET r == applyFileRenamesUnchecked(fsv, es, dryRun, throws, n - 1)
           op == es.fileOps[n]
           targetDir == dirname(op.newPath)
       IN IF r.thrown THEN r
          ELSE IF ~existsSync(r.fs, op.oldPath)
            THEN [r EXCEPT !.errors = Append(@, <<op.oldPath, "file no longer exists">>),
                           !.skipped = @ + 1]
          ELSE IF dryRun
            THEN [r EXCEPT !.applied = @ + 1]
          ELSE IF ~existsSync(r.fs, targetDir) /\ targetDir \in throws.mkdir
            THEN [r EXCEPT !.thrown = TRUE]
          ELSE LET made == IF ~existsSync(r.fs, targetDir)
                             THEN mkdirSync(r.fs, targetDir) ELSE r.fs
               IN IF op.oldPath \in throws.rename
                    THEN [r EXCEPT !.fs = made,
                                   !.errors = Append(@, <<op.oldPath, "rename failed">>),
                                   !.skipped = @ + 1]
                    ELSE [r EXCEPT !.fs = renameSync(made, op.oldPath, op.newPath),
                                   !.applied = @ + 1]

\* applyFileRenames that skips an op whose rename throws without a message
RECURSIVE applyFileRenamesSilentCatch(_, _, _, _, _)
applyFileRenamesSilentCatch(fsv, es, dryRun, throws, n) ==
  IF n = 0
    THEN [fs |-> fsv, applied |-> 0, skipped |-> 0, errors |-> <<>>, thrown |-> FALSE]
  ELSE LET r == applyFileRenamesSilentCatch(fsv, es, dryRun, throws, n - 1)
           op == es.fileOps[n]
           targetDir == dirname(op.newPath)
       IN IF r.thrown THEN r
          ELSE IF ~existsSync(r.fs, op.oldPath)
            THEN [r EXCEPT !.errors = Append(@, <<op.oldPath, "file no longer exists">>),
                           !.skipped = @ + 1]
          ELSE IF fileChecksum(r.fs, op.oldPath) # op.checksum
            THEN [r EXCEPT !.errors = Append(@, <<op.oldPath, "checksum mismatch, skipping">>),
                           !.skipped = @ + 1]
          ELSE IF dryRun
            THEN [r EXCEPT !.applied = @ + 1]
          ELSE IF ~existsSync(r.fs, targetDir) /\ targetDir \in throws.mkdir
            THEN [r EXCEPT !.thrown = TRUE]
          ELSE LET made == IF ~existsSync(r.fs, targetDir)
                             THEN mkdirSync(r.fs, targetDir) ELSE r.fs
               IN IF op.oldPath \in throws.rename
                    THEN [r EXCEPT !.fs = made, !.skipped = @ + 1]
                    ELSE [r EXCEPT !.fs = renameSync(made, op.oldPath, op.newPath),
                                   !.applied = @ + 1]


\* applyFileRenames(editset, dryRun, cwd) over the first n ops: the tree
\* afterwards and the result; `throws` are the OS calls that fail.  A throw
\* of mkdirSync is outside the try block and ends the call
RECURSIVE applyFileRenamesUpTo(_, _, _, _, _)
applyFileRenamesUpTo(fsv, es, dryRun, throws, n) ==
  IF n = 0
    THEN [fs |-> fsv, applied |-> 0, skipped |-> 0, errors |-> <<>>, thrown |-> FALSE]
  ELSE LET r == applyFileRenamesUpTo(fsv, es, dryRun, throws, n - 1)
           op == es.fileOps[n]
           targetDir == dirname(op.newPath)
       IN IF r.thrown THEN r
          ELSE IF ~existsSync(r.fs, op.oldPath)
            THEN [r EXCEPT !.errors = Append(@, <<op.oldPath, "file no longer exists">>),
                           !.skipped = @ + 1]
          ELSE IF fileChecksum(r.fs, op.oldPath) # op.checksum
            THEN [r EXCEPT !.errors = Append(@, <<op.oldPath, "checksum mismatch, skipping">>),
                           !.skipped = @ + 1]
          ELSE IF dryRun
            THEN [r EXCEPT !.applied = @ + 1]
          ELSE IF ~existsSync(r.fs, targetDir) /\ targetDir \in throws.mkdir
            THEN [r EXCEPT !.thrown = TRUE]
          ELSE LET made == IF ~existsSync(r.fs, targetDir)
                             THEN mkdirSync(r.fs, targetDir) ELSE r.fs
               IN IF op.oldPath \in throws.rename
                    THEN [r EXCEPT !.fs = made,
                                   !.errors = Append(@, <<op.oldPath, "rename failed">>),
                                   !.skipped = @ + 1]
                    ELSE [r EXCEPT !.fs = renameSync(made, op.oldPath, op.newPath),
                                   !.applied = @ + 1]

applyFileRenames(fsv, es, dryRun, throws) ==
  applyFileRenamesUpTo(fsv, es, dryRun, throws, Len(es.fileOps))

-----------------------------------------------------------------------------
(* The file-rename commands and the other programs that create, rewrite    *)
(* and delete files (SpecFiles).  The OS calls succeed on regular files.   *)

\* createFileRenameProposal(pattern, replacement), on a tree that has its
\* source files and none of the rename targets
FilePropose ==
  \E to \in Replacements, ord \in Orders :
    /\ fs \in SourceTrees
    /\ fileEditset' = createFileRenameProposal(fs, Pattern, to, ord)
    /\ base' = fs
    /\ last' = Op("files.propose", FALSE, EmptyEditset, NotGiven, NotGiven, NoResult)
    /\ UNCHANGED <<fs, editset, written, consumed, procs, splice, backends, tty>>

\* applyFileRenames(editset, dryRun)
FileApply ==
  /\ fileEditset.operation # "none"
  /\ \E dryRun \in BOOLEAN :
       LET r == applyFileRenames(fs, fileEditset, dryRun, NoFaults)
       IN /\ fs' = r.fs
          /\ last' = Op("files.apply", dryRun, EmptyEditset, NotGiven, NotGiven,
                        [ applied |-> r.applied, skipped |-> r.skipped,
                          driftDetected |-> <<>>, errors |-> r.errors ])
  /\ UNCHANGED <<editset, base, fileEditset,
                 written, consumed, procs, splice, backends, tty>>

\* another program deletes a file
ExternalDelete ==
  \E p \in AllPaths :
    /\ fs[p] # NoFile
    /\ fs' = [fs EXCEPT ![p] = NoFile]
    /\ last' = Op("external", FALSE, EmptyEditset, NotGiven, NotGiven, NoResult)
    /\ written' = written \ {p}
    /\ consumed' = consumed \ {p}
    /\ UNCHANGED <<editset, base, fileEditset, procs, splice, backends, tty>>

\* another program creates a file
ExternalCreate ==
  \E p \in AllPaths, c \in Contents :
    /\ fs[p] = NoFile
    /\ fs' = [fs EXCEPT ![p] = c]
    /\ last' = Op("external", FALSE, EmptyEditset, NotGiven, NotGiven, NoResult)
    /\ written' = written \ {p}
    /\ consumed' = consumed \ {p}
    /\ UNCHANGED <<editset, base, fileEditset, procs, splice, backends, tty>>

NextFiles ==
  \/ FilePropose
  \/ FileApply
  \/ ExternalWrite
  \/ ExternalDelete
  \/ ExternalCreate

SpecFiles == InitApply /\ [][NextFiles]_vars

-----------------------------------------------------------------------------
(* Dry runs and real runs of both apply commands (SpecDry): a content       *)
(* editset and a file editset proposed against the same tree.              *)

InitDry ==
  /\ fs \in SourceTrees
  /\ base = fs
  /\ editset \in RaceEditsets(fs)
  /\ fileEditset \in {createFileRenameProposal(fs, Pattern, to, ord) :
                        to \in Replacements, ord \in Orders}
  /\ last = NoOp
  /\ written = {}
  /\ backends = <<>>
  /\ tty = NoTty
  /\ consumed = {}
  /\ procs = <<>>
  /\ splice = <<>>

NextDry ==
  \/ EditsetApply
  \/ FileApply
  \/ ExternalWrite

SpecDry == InitDry /\ [][NextDry]_vars

-----------------------------------------------------------------------------
(* Properties of the file renames and of dry runs *)

\* the ops of the file editset whose source is gone or no longer has the
\* content it had when the editset was proposed
StaleOps ==
  {k \in DOMAIN fileEditset.fileOps :
     LET op == fileEditset.fileOps[k]
     IN fs[op.oldPath] = NoFile \/ fs[op.oldPath] # base[op.oldPath]}

\* C3: in a real applyFileRenames, an op whose source is missing or changed
\* since the proposal is not renamed, is counted in skipped and is named in
\* errors; every other op of the editset is renamed.
C3_RenameRechecksEveryOp ==
  [][ (last'.op = "files.apply" /\ ~last'.dryRun) =>
        LET ops == fileEditset.fileOps
            stale == StaleOps
        IN /\ \A k \in stale :
                /\ fs'[ops[k].oldPath] = fs[ops[k].oldPath]
                /\ fs'[ops[k].newPath] = fs[ops[k].newPath]
                /\ \E e \in Range(last'.res.errors) : e[1] = ops[k].oldPath
           /\ \A k \in DOMAIN ops \ stale :
                /\ fs'[ops[k].newPath] = fs[ops[k].oldPath]
                /\ fs'[ops[k].oldPath] = NoFile
           /\ last'.res.skipped = Cardinality(stale)
           /\ Len(last'.res.errors) = Cardinality(stale)
           /\ last'.res.applied = Len(ops) - Cardinality(stale)
    ]_vars

\* C3 happens: a real run skipped a changed source, named it, and renamed
\* another file
C3_Witness ==
  /\ last.op = "files.apply"
  /\ ~last.dryRun
  /\ last.res.applied > 0
  /\ \E e \in Range(last.res.errors) :
       /\ e[2] = "checksum mismatch, skipping"
       /\ fs[e[1]] # NoFile
  /\ \E k \in DOMAIN fileEditset.fileOps :
       /\ fs[fileEditset.fileOps[k].oldPath] = NoFile
       /\ fs[fileEditset.fileOps[k].newPath] = base[fileEditset.fileOps[k].oldPath]

-----------------------------------------------------------------------------
(* Verification (SpecVerify): both editsets are proposed on the initial    *)
(* tree; the commands verify them while other programs rewrite and delete  *)
(* the files.                                                              *)

\* editset.verify <file>
EditsetVerify ==
  /\ editset.operation # "none"
  /\ last' = Op("verify", FALSE, EmptyEditset, NotGiven, NotGiven,
                verifyEditset(fs, editset))
  /\ UNCHANGED <<fs, editset, base, fileEditset,
                 written, consumed, procs, splice, backends, tty>>

\* file.verify <file>
FileVerify ==
  /\ fileEditset.operation # "none"
  /\ LET result == verifyFileEditset(fs, fileEditset)
     IN last' = Op("files.verify", FALSE, EmptyEditset, NotGiven, NotGiven,
                   [ valid |-> result.valid, drifted |-> result.drifted,
                     fileCount |-> Len(fileEditset.fileOps) ])
  /\ UNCHANGED <<fs, editset, base, fileEditset,
                 written, consumed, procs, splice, backends, tty>>

NextVerify ==
  \/ EditsetVerify
  \/ FileVerify
  \/ ExternalWrite
  \/ ExternalDelete

SpecVerify == InitDry /\ [][NextVerify]_vars

\* the files of a set that are gone or no longer have the content they had
\* when the editsets were proposed
StaleFiles(files) == {f \in files : fs[f] = NoFile \/ fs[f] # base[f]}

\* the entries of a list of issues that name file f
EntriesFor(issues, f) == {k \in DOMAIN issues : issues[k][1] = f}

\* C11: verifyEditset and verifyFileEditset report valid exactly when every
\* file the editset references exists with the content it had at the
\* proposal; each missing or changed file has exactly one entry, an
\* unchanged file has none, and the working tree is left as it is.
C11_VerifyReportsDrift ==
  [][ /\ last'.op = "verify" =>
           LET files == {editset.refs[k].file : k \in DOMAIN editset.refs}
               stale == StaleFiles(files)
           IN /\ last'.res.valid <=> (stale = {})
              /\ Len(last'.res.issues) = Cardinality(stale)
              /\ \A f \in files :
                   Cardinality(EntriesFor(last'.res.issues, f))
                     = IF f \in stale THEN 1 ELSE 0
              /\ fs' = fs
      /\ last'.op = "files.verify" =>
           LET files == {fileEditset.fileOps[k].oldPath : k \in DOMAIN fileEditset.fileOps}
               stale == StaleFiles(files)
           IN /\ last'.res.valid <=> (stale = {})
              /\ Len(last'.res.drifted) = Cardinality(stale)
              /\ \A f \in files :
                   Cardinality(EntriesFor(last'.res.drifted, f))
                     = IF f \in stale THEN 1 ELSE 0
              /\ fs' = fs
    ]_vars

\* C11 happens: file.verify reported one changed and one missing source of
\* an editset of two renames, and the content editset has a changed file
C11_Witness ==
  /\ last.op = "files.verify"
  /\ ~last.res.valid
  /\ Len(last.res.drifted) = 2
  /\ \E e \in Range(last.res.drifted) : e[2] = "file no longer exists"
  /\ \E e \in Range(last.res.drifted) : e[2] = "checksum mismatch (file changed)"
  /\ ~verifyEditset(fs, editset).valid

-----------------------------------------------------------------------------
(* Conflict check (SpecConflicts): checkFileConflicts on any short list of *)
(* ops, and createFileRenameProposal, on a case-sensitive file system in   *)
(* which names that differ by letter case only are different files.        *)

MaxOps == 2

\* the names of the directory
ConflictPaths == { <<"w", "i">>, <<"W", "i">>, <<"g">> }

ConflictTrees == [ConflictPaths -> {<<"x">>, NoFile}]

\* the lists of ops a caller can pass: the sources hold the search term
OpLists ==
  LET ops == { FileOp(old, new, <<"sha256:16", <<"x">>>>) :
                 old \in {p \in ConflictPaths : TestCI(Pattern, p)},
                 new \in ConflictPaths }
  IN UNION { [1..n -> ops] : n \in 0..MaxOps }

InitConflicts ==
  /\ fs \in ConflictTrees
  /\ editset = EmptyEditset
  /\ base = fs
  /\ fileEditset = EmptyFileEditset
  /\ last = NoOp
  /\ written = {}
  /\ backends = <<>>
  /\ tty = NoTty
  /\ consumed = {}
  /\ procs = <<>>
  /\ splice = <<>>

\* checkFileConflicts(fileOps, cwd)
CheckConflicts ==
  \E ops \in OpLists :
    /\ last' = Op("files.check", FALSE, [operation |-> "file-rename", fileOps |-> ops],
                  NotGiven, NotGiven, checkFileConflicts(fs, ops))
    /\ UNCHANGED <<fs, editset, base, fileEditset,
                   written, consumed, procs, splice, backends, tty>>

\* createFileRenameProposal(pattern, replacement) with a replacement that
\* may differ from the search term by letter case only
FileProposeCased ==
  \E to \in { <<"g">>, <<"W", "i">> }, ord \in Orders :
    /\ fileEditset' = createFileRenameProposal(fs, Pattern, to, ord)
    /\ base' = fs
    /\ last' = Op("files.propose", FALSE, EmptyEditset, NotGiven, NotGiven, NoResult)
    /\ UNCHANGED <<fs, editset, written, consumed, procs, splice, backends, tty>>

NextConflicts ==
  \/ CheckConflicts
  \/ FileProposeCased

SpecConflicts == InitConflicts /\ [][NextConflicts]_vars

\* the elements of s at the indices idx, in order
Pick(s, idx) ==
  [k \in 1..Cardinality(idx) |->
     s[CHOOSE i \in idx : Cardinality({j \in idx : j < i}) = k - 1]]

\* the indices among the first n ops that are safe by the three rules: the
\* target does not exist as another path than the source, no earlier safe op
\* has the same target, and the op changes the path
RECURSIVE SafeByRule(_, _, _)
SafeByRule(fsv, ops, n) ==
  IF n = 0 THEN {}
  ELSE LET before == SafeByRule(fsv, ops, n - 1)
           op == ops[n]
       IN IF \/ existsSync(fsv, op.newPath) /\ op.newPath # op.oldPath
             \/ \E j \in before : ops[j].newPath = op.newPath
             \/ op.oldPath = op.newPath
            THEN before ELSE before \cup {n}

\* the targets of a list of ops are pairwise distinct and none of them
\* exists in the tree as another file than the op's source
TargetsFree(fsv, ops) ==
  /\ \A j, k \in DOMAIN ops : j # k => ops[j].newPath # ops[k].newPath
  /\ \A k \in DOMAIN ops :
       ~(existsSync(fsv, ops[k].newPath) /\ ops[k].newPath # ops[k].oldPath)

\* C12: checkFileConflicts puts each op in exactly one of conflicts and
\* safe, an op being a conflict exactly when its target exists and is not
\* its source, or is the target of an earlier safe op, or is its own source;
\* the safe list, and the fileOps of a proposal, have pairwise distinct
\* targets none of which exists as another file.
C12_ConflictsPartitionOps ==
  [][ /\ last'.op = "files.check" =>
           LET ops == last'.input.fileOps
               safe == SafeByRule(fs, ops, Len(ops))
               hit == Pick(ops, DOMAIN ops \ safe)
           IN /\ last'.res.safe = Pick(ops, safe)
              /\ Len(last'.res.conflicts) = Len(hit)
              /\ \A k \in DOMAIN hit :
                   /\ last'.res.conflicts[k].oldPath = hit[k].oldPath
                   /\ last'.res.conflicts[k].newPath = hit[k].newPath
              /\ TargetsFree(fs, last'.res.safe)
      /\ last'.op = "files.propose" => TargetsFree(fs, fileEditset'.fileOps)
    ]_vars

-----------------------------------------------------------------------------
(* OS failures during file.apply (SpecFaults): the editset moves files,    *)
(* some of them into a directory that may not exist yet; mkdirSync and     *)
(* renameSync can fail, and other programs rewrite and delete files.       *)

Subdir == <<"d">>

\* the new path of a source file: renamed in place, or moved into Subdir
Target(p, moved) ==
  IF moved THEN Subdir \o <<"/">> \o applyReplacement(p, Pattern, <<"g">>)
  ELSE applyReplacement(p, Pattern, <<"g">>)

FaultPaths ==
  AllPaths \cup {Subdir} \cup {Target(p, TRUE) : p \in Paths}

\* the source files, and Subdir there or not
FaultTrees ==
  {t \in [FaultPaths -> Contents \cup {NoFile, Dir}] :
     /\ \A p \in Paths : t[p] \in Contents
     /\ t[Subdir] \in {NoFile, Dir}
     /\ \A p \in FaultPaths \ (Paths \cup {Subdir}) : t[p] = NoFile}

\* the FileEditsets a caller can pass for a tree: one op for each source
\* file, in either order
FaultEditsets(fsv) ==
  { [ operation |-> "file-rename", pattern |-> Pattern, replacement |-> <<"g">>,
      fileOps |-> [k \in 1..Len(files) |->
                    FileOp(files[k], Target(files[k], moved[files[k]]),
                           fileChecksum(fsv, files[k]))],
      importEdits |-> <<>> ]
    : files \in {FileSeq([p \in Paths |-> fsv[p]]),
                 Reverse(FileSeq([p \in Paths |-> fsv[p]]))},
      moved \in [Paths -> BOOLEAN] }

\* the OS calls that can fail during one call
Faults == [rename : SUBSET Paths, mkdir : SUBSET {Subdir}]

InitFaults ==
  /\ fs \in FaultTrees
  /\ base = fs
  /\ editset = EmptyEditset
  /\ fileEditset \in FaultEditsets(fs)
  /\ last = NoOp
  /\ written = {}
  /\ backends = <<>>
  /\ tty = NoTty
  /\ consumed = {}
  /\ procs = <<>>
  /\ splice = <<>>

\* file.apply <file> [--dry-run] when OS calls can fail: an exception that
\* leaves applyFileRenames is caught by main, which emits { error }
FileApplyFaulty ==
  \E dryRun \in BOOLEAN, faults \in Faults :
    LET r == applyFileRenames(fs, fileEditset, dryRun, faults)
    IN /\ fs' = r.fs
       /\ last' = Op("files.apply", dryRun, faults, NotGiven, NotGiven,
                     IF r.thrown THEN [error |-> "mkdir failed"]
                     ELSE [ applied |-> r.applied, skipped |-> r.skipped,
                            errors |-> r.errors ])
       /\ UNCHANGED <<editset, base, fileEditset,
                      written, consumed, procs, splice, backends, tty>>

NextFaults ==
  \/ FileApplyFaulty
  \/ ExternalWrite
  \/ ExternalDelete

SpecFaults == InitFaults /\ [][NextFaults]_vars

\* the ops of the file editset that fail in a call with the given faults:
\* stale, or (in a real run) an OS call for them fails
FailingOps(dryRun, faults) ==
  StaleOps \cup
  {k \in DOMAIN fileEditset.fileOps :
     LET op == fileEditset.fileOps[k]
     IN /\ ~dryRun
        /\ \/ op.oldPath \in faults.rename
           \/ ~existsSync(fs, dirname(op.newPath)) /\ dirname(op.newPath) \in faults.mkdir}

\* C13: whatever fails for one op of applyFileRenames (drift, a missing
\* source, mkdirSync or renameSync throwing), the call returns the aggregate
\* result, every op is counted as applied or skipped, each failed op is
\* named in errors, and every op that does not fail is renamed.
C13_FailuresAreFileScoped ==
  [][ last'.op = "files.apply" =>
        LET ops == fileEditset.fileOps
            failing == FailingOps(last'.dryRun, last'.input)
        IN /\ DOMAIN last'.res = {"applied", "skipped", "errors"}
           /\ last'.res.applied = Len(ops) - Cardinality(failing)
           /\ last'.res.skipped = Cardinality(failing)
           /\ \A k \in failing :
                \E e \in Range(last'.res.errors) : e[1] = ops[k].oldPath
           /\ ~last'.dryRun =>
                \A k \in DOMAIN ops \ failing :
                  /\ fs'[ops[k].newPath] = fs[ops[k].oldPath]
                  /\ fs'[ops[k].oldPath] = NoFile
    ]_vars

-----------------------------------------------------------------------------
(* Case-preserving names (SpecCase): computeNewName and applyReplacement   *)
(* on every short name, for patterns of one and two characters and for a   *)
(* lower-case and a mixed-case replacement.  "_" has no letter case.       *)

MaxName == 3

CaseChars == {"w", "W", "i", "I", "_"}

Names == UNION { [1..n -> CaseChars] : n \in 1..MaxName }

CasePatterns == { <<"w", "i">>, <<"w">>, <<"_", "w">> }

CaseReplacements == { <<"g", "x">>, <<"g", "X">> }

InitCase ==
  /\ fs = [p \in AllPaths |-> NoFile]
  /\ base = fs
  /\ editset = EmptyEditset
  /\ fileEditset = EmptyFileEditset
  /\ \E n \in Names, pat \in CasePatterns, r \in CaseReplacements :
       last = Op("input", FALSE, [name |-> n, pattern |-> pat, replacement |-> r],
                 NotGiven, NotGiven, NoResult)
  /\ written = {}
  /\ backends = <<>>
  /\ tty = NoTty
  /\ consumed = {}
  /\ procs = <<>>
  /\ splice = <<>>

\* computeNewName(oldName, new RegExp(pattern, "i"), replacement)
ComputeNewName ==
  /\ last.op = "input"
  /\ last' = [last EXCEPT !.op = "computeNewName",
                          !.res = computeNewName(last.input.name, last.input.pattern,
                                                 last.input.replacement)]
  /\ UNCHANGED <<fs, editset, base, fileEditset,
                 written, consumed, procs, splice, backends, tty>>

\* applyReplacement(filename, pattern, replacement)
ApplyReplacement ==
  /\ last.op = "input"
  /\ last' = [last EXCEPT !.op = "applyReplacement",
                          !.res = applyReplacement(last.input.name, last.input.pattern,
                                                   last.input.replacement)]
  /\ UNCHANGED <<fs, editset, base, fileEditset,
                 written, consumed, procs, splice, backends, tty>>

NextCase ==
  \/ ComputeNewName
  \/ ApplyReplacement

SpecCase == InitCase /\ [][NextCase]_vars

\* an upper-case letter; a character without letter case
IsUpperLetter(c) == c # LowerC(c)
IsCaseless(c) == UpperC(c) = LowerC(c)

\* where the pattern occurs in the name of the last call, letter case ignored
Occurrences ==
  FindAll(toLowerCase(last.input.name), toLowerCase(last.input.pattern), 0)

\* the name of the last call with its first match replaced by `rendered`
WithFirstMatch(rendered) ==
  LET n == last.input.name
      at == Occurrences[1]
  IN SubSeq(n, 1, at) \o rendered \o SubSeq(n, at + Len(last.input.pattern) + 1, Len(n))

FirstMatch ==
  SubSeq(last.input.name, Occurrences[1] + 1, Occurrences[1] + Len(last.input.pattern))

\* C14: computeNewName replaces the match by the replacement in the casing
\* of the match: upper-case for an all upper-case match of more than one
\* character, capitalised for a match that starts with an upper-case letter,
\* lower-case otherwise; the rest of the name is kept; wi, Wi, WI, wiI with
\* wi -> gx give gx, Gx, GX, gxI.
C14_CasePreservingRename ==
  /\ computeNewName(<<"w", "i">>, <<"w", "i">>, <<"g", "x">>) = <<"g", "x">>
  /\ computeNewName(<<"W", "i">>, <<"w", "i">>, <<"g", "x">>) = <<"G", "x">>
  /\ computeNewName(<<"W", "I">>, <<"w", "i">>, <<"g", "x">>) = <<"G", "X">>
  /\ computeNewName(<<"w", "i", "I">>, <<"w", "i">>, <<"g", "x">>) = <<"g", "x", "I">>
  /\ last.op = "computeNewName" =>
       IF Occurrences = <<>> THEN last.res = last.input.name
       ELSE LET r == last.input.replacement
            IN last.res = WithFirstMatch(
                 IF FirstMatch = toUpperCase(FirstMatch) /\ Len(FirstMatch) > 1
                   THEN toUpperCase(r)
                 ELSE IF IsUpperLetter(FirstMatch[1])
                   THEN <<UpperC(r[1])>> \o Tail(r)
                 ELSE toLowerCase(r))

\* C15: when the first character of the match has no letter case,
\* computeNewName renders the replacement in lower case.
C15_CaselessMatchIsLowercase ==
  (last.op = "computeNewName" /\ Occurrences # <<>> /\ IsCaseless(FirstMatch[1]))
    => last.res = WithFirstMatch(toLowerCase(last.input.replacement))

\* C16: for a name in which the pattern occurs once, applyReplacement
\* returns what computeNewName returns.
C16_FileRenameUsesSameRule ==
  (last.op = "applyReplacement" /\ Len(Occurrences) = 1)
    => last.res = computeNewName(last.input.name, last.input.pattern,
                                 last.input.replacement)

-----------------------------------------------------------------------------
(* Backend registry (SpecRegistry): registerBackend in any order, then      *)
(* getBackendForFile.                                                       *)

MaxBackends == 3

\* the three backends of the plugin and one more that shares a priority and
\* an extension with them
Backends ==
  { [name |-> "ts-morph", extensions |-> {".ts", ".js"}, priority |-> 100],
    [name |-> "ast-grep", extensions |-> {".go", ".json"}, priority |-> 50],
    [name |-> "ripgrep", extensions |-> {"*"}, priority |-> 10],
    [name |-> "custom", extensions |-> {".ts", ".go"}, priority |-> 50] }

\* file names: <<base name, extension>>
RegistryFiles == { <<"a", ".ts">>, <<"b", ".go">>, <<"c", ".md">>, <<"Makefile", "">> }

\* path.extname(file)
extname(file) == file[2]

NoBackend == [name |-> "null", extensions |-> {}, priority |-> 0]

\* registerBackend that appends without sorting
registerBackendUnsorted(list, backend) == Append(list, backend)

\* registerBackend(backend): insert into the list kept sorted by descending
\* priority; backends of equal priority stay in registration order
registerBackend(list, backend) ==
  The({ StableSort(pushed, [i \in DOMAIN pushed |-> [j \in DOMAIN pushed |->
                              pushed[j].priority - pushed[i].priority]])
        : pushed \in {Append(list, backend)} })

\* getBackendForFile(file): the first backend whose extension list contains
\* the extension of the file or the wildcard, or null
getBackendForFile(list, file) ==
  LET hits == SelectSeq(list, LAMBDA b :
                extname(file) \in b.extensions \/ "*" \in b.extensions)
  IN IF hits = <<>> THEN NoBackend ELSE hits[1]

InitRegistry ==
  /\ fs = [p \in AllPaths |-> NoFile]
  /\ base = fs
  /\ editset = EmptyEditset
  /\ fileEditset = EmptyFileEditset
  /\ last = NoOp
  /\ written = {}
  /\ consumed = {}
  /\ procs = <<>>
  /\ splice = <<>>
  /\ backends = <<>>
  /\ tty = NoTty

RegisterBackend ==
  \E b \in Backends :
    /\ Len(backends) < MaxBackends
    /\ backends' = registerBackend(backends, b)
    /\ last' = Op("register", FALSE, b, NotGiven, NotGiven, NoResult)
    /\ UNCHANGED <<fs, editset, base, fileEditset, written, consumed, procs, splice, tty>>

GetBackendForFile ==
  \E file \in RegistryFiles :
    /\ last' = Op("lookup", FALSE, file, NotGiven, NotGiven,
                  getBackendForFile(backends, file))
    /\ UNCHANGED <<fs, editset, base, fileEditset, written, consumed, procs, splice,
                   backends, tty>>

NextRegistry ==
  \/ RegisterBackend
  \/ GetBackendForFile

SpecRegistry == InitRegistry /\ [][NextRegistry]_vars

\* the registered backends that list the extension of the file or "*"
Candidates(file) ==
  {k \in DOMAIN backends :
     extname(file) \in backends[k].extensions \/ "*" \in backends[k].extensions}

-----------------------------------------------------------------------------
(* The rg process (SpecRg): pattern.find and pattern.replace when rg may   *)
(* be missing and when rg rejects the pattern.  A message is a sequence of *)
(* pieces of text; "(" makes a pattern an invalid regular expression.      *)

\* the patterns of the searches: the search term, an invalid pattern, an
\* invalid pattern that holds the text "not found"
RgPatterns == { Pattern, <<"x", "(">>, <<"not found", "(">> }

RgInstalled == {"installed", "missing"}

\* String.prototype.includes
includes(text, piece) == FindAll(text, piece, 0) # <<>>

\* the exit status of a process that could not be spawned
NoStatus == -1

\* execFileSync("rg", args): exit status, message of the error it throws,
\* matches printed.  The message of a failed command is "Command failed: "
\* with the command line, then what rg wrote to stderr
execFileSync(fsv, pattern, rg) ==
  IF rg = "missing"
    THEN [status |-> NoStatus, message |-> <<"spawnSync", "rg", "ENOENT">>,
          matches |-> <<>>]
  ELSE LET cmd == <<"Command failed:", "rg", "--json", "--line-number", "--column">>
                    \o pattern \o <<".">>
       IN IF "(" \in Range(pattern)
            THEN [status |-> 2, message |-> cmd \o <<"rg: regex parse error">>,
                  matches |-> <<>>]
          ELSE The({ IF found = <<>>
                       THEN [status |-> 1, message |-> cmd, matches |-> <<>>]
                       ELSE [status |-> 0, message |-> <<>>, matches |-> found]
                     : found \in {runRg(fsv, pattern)} })

InstallError == <<"ripgrep (rg) not found. Install via: brew install ripgrep">>

\* runRg(args) with its catch block: the matches, or the error it throws
runRgOutcome(fsv, pattern, rg) ==
  The({ IF r.status = 0 THEN [error |-> <<>>, matches |-> r.matches]
        ELSE IF r.status = 1 THEN [error |-> <<>>, matches |-> <<>>]
        ELSE IF includes(r.message, <<"ENOENT">>) \/ includes(r.message, <<"not found">>)
          THEN [error |-> InstallError, matches |-> <<>>]
        ELSE [error |-> r.message, matches |-> <<>>]
        : r \in {execFileSync(fsv, pattern, rg)} })

\* findPatterns(pattern, glob) with the errors of runRg
findPatternsOutcome(fsv, pattern, rg) ==
  The({ IF r.error # <<>> THEN [error |-> r.error, refs |-> <<>>]
        ELSE [error |-> <<>>, refs |-> parseMatches(fsv, r.matches)]
        : r \in {runRgOutcome(fsv, pattern, rg)} })

\* createPatternReplaceProposal(pattern, replacement, glob) with the errors
\* of runRg
createPatternReplaceProposalOutcome(fsv, pattern, replacement, rg) ==
  The({ IF r.error # <<>> THEN [error |-> r.error, editset |-> EmptyEditset]
        ELSE [ error |-> <<>>,
               editset |->
                 [ operation |-> "rename", from |-> pattern, to |-> replacement,
                   refs |-> r.refs,
                   edits |-> generateEdits(fsv, r.refs, pattern, replacement) ] ]
        : r \in {findPatternsOutcome(fsv, pattern, rg)} })

\* pattern.find --pattern <p> --backend ripgrep
PatternFind ==
  \E pattern \in RgPatterns, rg \in RgInstalled :
    /\ last' = Op("pattern.find", FALSE, [pattern |-> pattern, rg |-> rg],
                  NotGiven, NotGiven, findPatternsOutcome(fs, pattern, rg))
    /\ UNCHANGED <<fs, editset, base, fileEditset, written, consumed, procs, splice,
                   backends, tty>>

\* pattern.replace --pattern <p> --replace <r> --backend ripgrep: the editset
\* is saved when the proposal does not throw
PatternReplaceRg ==
  \E pattern \in RgPatterns, to \in Replacements, rg \in RgInstalled :
    LET r == createPatternReplaceProposalOutcome(fs, pattern, to, rg)
    IN /\ last' = Op("pattern.replace", FALSE, [pattern |-> pattern, rg |-> rg],
                     NotGiven, NotGiven, [error |-> r.error, refs |-> r.editset.refs])
       /\ editset' = IF r.error = <<>> THEN r.editset ELSE editset
       /\ base' = IF r.error = <<>> THEN fs ELSE base
       /\ UNCHANGED <<fs, fileEditset, written, consumed, procs, splice, backends, tty>>

NextRg ==
  \/ PatternFind
  \/ PatternReplaceRg
  \/ ExternalWrite

SpecRg == InitApply /\ [][NextRg]_vars

\* C18: when rg cannot be started the two functions throw the error that
\* names ripgrep and how to install it, and return no refs and no editset;
\* when rg exits with status 1 they succeed with no refs; any other failure
\* of rg is thrown as it is, so the install error means a missing rg.
C18_MissingToolIsNotNoMatch ==
  [][ last'.op \in {"pattern.find", "pattern.replace"} =>
        LET ran == execFileSync(fs, last'.input.pattern, last'.input.rg)
            out == last'.res
        IN /\ last'.input.rg = "missing" =>
                out.error = InstallError /\ out.refs = <<>> /\ editset' = editset
           /\ (last'.input.rg = "installed" /\ ran.status = 1) =>
                out.error = <<>> /\ out.refs = <<>>
           /\ (last'.input.rg = "installed" /\ ran.status \notin {0, 1}) =>
                out.error = ran.message /\ out.error # InstallError
                  /\ editset' = editset
           /\ out.error = InstallError => last'.input.rg = "missing"
    ]_vars

-----------------------------------------------------------------------------
(* The process of one CLI invocation (SpecCli): what main() writes on      *)
(* standard output and standard error, and the exit code.  Both editsets   *)
(* are on disk; other programs rewrite the files between invocations.      *)

\* the value of an argument that is not on the command line
NoArg == <<"<undefined>">>

\* the saved editsets, and a file name that no file has
EditsetFile == <<"editset.json">>
FileEditsetFile == <<"file-editset.json">>
MissingFile == <<"missing.json">>

\* the column passed to symbol.at: the first identifier, the blank after it
Cols == {1, 3}

\* process.argv.slice(2): the command, args[1] or the value of --pattern,
\* [col] of symbol.at, --dry-run; pattern.find is run with --backend ripgrep
Argvs ==
  [command : {"", "--help", "bogus"}, arg : {NoArg}, col : {1}, dryRun : {FALSE}]
  \cup [command : {"symbol.at"}, arg : {NoArg, <<"w", "i">>, MissingFile},
        col : Cols, dryRun : {FALSE}]
  \cup [command : {"editset.apply"}, arg : {NoArg, EditsetFile, MissingFile},
        col : {1}, dryRun : BOOLEAN]
  \cup [command : {"editset.verify"}, arg : {NoArg, EditsetFile, MissingFile},
        col : {1}, dryRun : {FALSE}]
  \cup [command : {"file.apply"}, arg : {NoArg, FileEditsetFile, MissingFile},
        col : {1}, dryRun : BOOLEAN]
  \cup [command : {"pattern.find"}, arg : {NoArg, Pattern, <<"x", "(">>},
        col : {1}, dryRun : {FALSE}]

\* a line written by console.log / console.error: a JSON document or text
JsonDoc(data) == [kind |-> "json", value |-> data]
Text(t) == [kind |-> "text", value |-> t]

\* the process when main() starts; exit is the code it ends with
Started(fsv) == [stdout |-> <<>>, stderr |-> <<>>, exit |-> 0, fs |-> fsv]

\* output(data): console.log(JSON.stringify(data, null, 2))
output(p, data) == [p EXCEPT !.stdout = Append(@, JsonDoc(data))]

\* error(message): console.error(JSON.stringify({ error })), process.exit(1)
error(p, message) ==
  [p EXCEPT !.stderr = Append(@, JsonDoc([error |-> message])), !.exit = 1]

\* usage(): console.error(`Usage: ...`), process.exit(1)
usage(p) ==
  [p EXCEPT !.stderr = Append(@, Text("Usage: refactor.ts <command> [options]")),
            !.exit = 1]

NoSymbol == [name |-> <<>>]

\* getSymbolAt(project, filePath, line, column)
getSymbolAt(fsv, filePath, line, column) ==
  IF ~existsSync(fsv, filePath) THEN NoSymbol
  ELSE The({
    IF at = {} THEN NoSymbol
    ELSE The({ [ symbolKey |-> SymbolKey(filePath, line, node.off - LineStart(fsv[filePath], line) + 1, node.text),
                 name |-> node.text, file |-> filePath, line |-> line,
                 column |-> node.off - LineStart(fsv[filePath], line) + 1 ]
               : node \in {CHOOSE n \in at : TRUE} })
    : at \in { {n \in Range(Identifiers(fsv[filePath], 0)) :
                  \E pos \in {LineStart(fsv[filePath], line) + column - 1} :
                    n.off <= pos /\ pos < n.off + Len(n.text)} } })

\* main(): the command's case of the switch; an exception that leaves main()
\* reaches main().catch, which calls error() with its message
main(argv, fsv, es, fes, rg) ==
  The({
    CASE argv.command \in {"", "--help"} -> usage(p)
      [] argv.command = "symbol.at" ->
           IF argv.arg = NoArg THEN error(p, "Usage: symbol.at <file> <line> [col]")
           ELSE The({ IF symbol = NoSymbol THEN error(p, "No symbol found at")
                      ELSE output(p, symbol)
                      : symbol \in {getSymbolAt(fsv, argv.arg, 1, argv.col)} })
      [] argv.command = "editset.apply" ->
           IF argv.arg = NoArg THEN error(p, "Usage: editset.apply <file> [--dry-run]")
           ELSE IF argv.arg = MissingFile
             THEN error(p, "ENOENT: no such file or directory, open")
           ELSE The({
             output([ (IF argv.dryRun
                         THEN [p EXCEPT !.stderr =
                                 Append(@, Text("[DRY RUN - no changes applied]"))]
                         ELSE p) EXCEPT !.fs = result.fs ],
                    [ applied |-> result.applied, skipped |-> result.skipped,
                      driftDetected |-> result.driftDetected ])
             : result \in {applyEditset(fsv, es, argv.dryRun)} })
      [] argv.command = "editset.verify" ->
           IF argv.arg = NoArg THEN error(p, "Usage: editset.verify <file>")
           ELSE IF argv.arg = MissingFile
             THEN error(p, "ENOENT: no such file or directory, open")
           ELSE output(p, verifyEditset(fsv, es))
      [] argv.command = "file.apply" ->
           IF argv.arg = NoArg THEN error(p, "Usage: file.apply <file> [--dry-run]")
           ELSE IF argv.arg = MissingFile
             THEN error(p, "ENOENT: no such file or directory, open")
           ELSE The({
             output([ (IF argv.dryRun
                         THEN [p EXCEPT !.stderr =
                                 Append(@, Text("[DRY RUN - no files renamed]"))]
                         ELSE p) EXCEPT !.fs = result.fs ],
                    [ applied |-> result.applied, skipped |-> result.skipped,
                      errors |-> result.errors, dryRun |-> argv.dryRun ])
             : result \in {applyFileRenames(fsv, fes, argv.dryRun, NoFaults)} })
      [] argv.command = "pattern.find" ->
           IF argv.arg = NoArg THEN error(p, "Usage: pattern.find --pattern <pattern>")
           ELSE The({ IF r.error # <<>> THEN error(p, r.error)
                      ELSE output(p, r.refs)
                      : r \in {findPatternsOutcome(fsv, argv.arg, rg)} })
      [] OTHER -> error(p, "Unknown command")
    : p \in {Started(fsv)} })

\* one invocation of refactor.ts
Main ==
  \E argv \in Argvs :
  \E rg \in IF argv.command = "pattern.find" THEN RgInstalled ELSE {"installed"} :
    LET p == main(argv, fs, editset, fileEditset, rg)
        wrote == IF argv.command = "editset.apply" /\ p.exit = 0 /\ ~argv.dryRun
                   THEN {f \in Range(EditFiles(editset)) : ~Drifted(fs, editset, f)}
                   ELSE {}
    IN /\ fs' = p.fs
       /\ last' = Op("main", argv.dryRun, argv, NotGiven, NotGiven,
                     [stdout |-> p.stdout, stderr |-> p.stderr, exit |-> p.exit])
       /\ written' = written \cup wrote
       /\ consumed' = consumed \cup {f \in wrote : p.fs[f] # fs[f]}
       /\ UNCHANGED <<editset, base, fileEditset, procs, splice, backends, tty>>

NextCli ==
  \/ Main
  \/ ExternalWrite

SpecCli == InitDry /\ [][NextCli]_vars

\* the JSON error objects among the lines of a stream
ErrorObjects(stream) ==
  SelectSeq(stream, LAMBDA l : l.kind = "json" /\ "error" \in DOMAIN l.value)

\* C19: an invocation that ends with a non-zero exit code has written a JSON
\* object with an `error` field and no document on standard output, and an
\* invocation fails when it has no command, an unknown command, a missing
\* argument, a symbol or an editset file that is not found, or a backend that
\* throws; an invocation that ends with exit code 0 has written exactly one
\* JSON document on standard output.
C19_FailureIsJsonError ==
  [][ last'.op = "main" =>
        LET argv == last'.input
            out == last'.res
        IN /\ (\/ argv.command \in {"", "bogus"}
               \/ argv.arg \in {NoArg, MissingFile}) => out.exit # 0
           /\ out.exit # 0 =>
                /\ ErrorObjects(out.stderr) # <<>>
                /\ out.stdout = <<>>
           /\ out.exit = 0 =>
                /\ Len(out.stdout) = 1
                /\ out.stdout[1].kind = "json"
    ]_vars

-----------------------------------------------------------------------------
(* Symbol discovery over syntax trees (SpecSymbols).  The parser is        *)
(* external: a source file is given as the declarations the engine finds   *)
(* in it, one per line.  A name node is an identifier or a binding         *)
(* pattern; a pattern has the name nodes of its binding elements and the   *)
(* parameters of the functions in its default values.                      *)

MaxDecls == 2

SymbolFile == <<"w", "i">>

Ident(text, line, col) ==
  [ node |-> "Identifier", text |-> text, line |-> line, col |-> col,
    elements |-> <<>>, inner |-> <<>> ]

BindingPattern(node, text, line, col, elements, inner) ==
  [ node |-> node, text |-> text, line |-> line, col |-> col,
    elements |-> elements, inner |-> inner ]

Declaration(node, topLevel, nameNode) ==
  [node |-> node, topLevel |-> topLevel, name |-> nameNode]

\* wi;  { wi };  { wi, x };  [ wi ];  { x: { wi } };  { x };
\* { x = ({ wi }) => 0 }
NameNodes(line) ==
  { Ident(<<"w", "i">>, line, 1),
    BindingPattern("ObjectBindingPattern", <<"{", "w", "i", "}">>, line, 1,
                   <<Ident(<<"w", "i">>, line, 2)>>, <<>>),
    BindingPattern("ObjectBindingPattern", <<"{", "w", "i", ",", "x", "}">>, line, 1,
                   <<Ident(<<"w", "i">>, line, 2), Ident(<<"x">>, line, 5)>>, <<>>),
    BindingPattern("ArrayBindingPattern", <<"[", "w", "i", "]">>, line, 1,
                   <<Ident(<<"w", "i">>, line, 2)>>, <<>>),
    BindingPattern("ObjectBindingPattern",
                   <<"{", "x", ":", "{", "w", "i", "}", "}">>, line, 1,
                   <<BindingPattern("ObjectBindingPattern", <<"{", "w", "i", "}">>,
                                    line, 4, <<Ident(<<"w", "i">>, line, 5)>>, <<>>)>>,
                   <<>>),
    BindingPattern("ObjectBindingPattern", <<"{", "x", "}">>, line, 1,
                   <<Ident(<<"x">>, line, 2)>>, <<>>),
    BindingPattern("ObjectBindingPattern",
                   <<"{", "x", "=", "(", "{", "w", "i", "}", ")", "=>", "0", "}">>,
                   line, 1, <<Ident(<<"x">>, line, 2)>>,
                   <<Declaration("Parameter", FALSE,
                       BindingPattern("ObjectBindingPattern", <<"{", "w", "i", "}">>,
                                      line, 5, <<Ident(<<"w", "i">>, line, 6)>>, <<>>))>>) }

\* a variable declaration of the file's top level or of a function body, a
\* parameter of a function
Declarations(line) ==
  { Declaration(k[1], k[2], n) :
      k \in {<<"VariableDeclaration", TRUE>>, <<"VariableDeclaration", FALSE>>,
             <<"Parameter", FALSE>>},
      n \in NameNodes(line) }

\* the source files: up to MaxDecls declarations, one per line
SyntaxTrees ==
  UNION { {t \in [1..n -> UNION {Declarations(l) : l \in 1..n}] :
             \A l \in 1..n : t[l] \in Declarations(l)} : n \in 1..MaxDecls }

\* bindingPattern.forEachDescendant: the name nodes of the binding elements
\* below a pattern that are identifiers, at any depth
RECURSIVE addBindingPatternMatches(_)
addBindingPatternMatches(bindingPattern) ==
  Flatten([k \in 1..Len(bindingPattern.elements) |->
             IF bindingPattern.elements[k].node = "Identifier"
               THEN <<bindingPattern.elements[k]>>
               ELSE addBindingPatternMatches(bindingPattern.elements[k])])
  \o Flatten([k \in 1..Len(bindingPattern.inner) |->
             IF bindingPattern.inner[k].name.node = "Identifier" THEN <<>>
             ELSE addBindingPatternMatches(bindingPattern.inner[k].name)])

\* the declarations below a name node
RECURSIVE InnerDeclarations(_)
InnerDeclarations(nameNode) ==
  Flatten([k \in 1..Len(nameNode.inner) |->
             <<nameNode.inner[k]>> \o InnerDeclarations(nameNode.inner[k].name)])
  \o Flatten([k \in 1..Len(nameNode.elements) |->
             InnerDeclarations(nameNode.elements[k])])

\* sourceFile.forEachDescendant: every declaration of the file
forEachDescendant(tree) ==
  Flatten([k \in 1..Len(tree) |-> <<tree[k]>> \o InnerDeclarations(tree[k].name)])

\* the identifier nodes of a file that have the text of `node`
ReferenceCount(tree, node) ==
  Len(SelectSeq(Flatten([k \in 1..Len(tree) |->
                           IF tree[k].name.node = "Identifier" THEN <<tree[k].name>>
                           ELSE addBindingPatternMatches(tree[k].name)]),
                LAMBDA n : n.text = node.text))

\* addMatch(node, kind) for each node of a list in turn: a node whose key
\* has been seen is left out
RECURSIVE addMatches(_, _, _)
addMatches(tree, nodes, n) ==
  IF n = 0 THEN <<>>
  ELSE The({
    IF \E j \in 1..Len(matches) : matches[j].symbolKey = key THEN matches
    ELSE Append(matches, [ symbolKey |-> key, name |-> nodes[n].text,
                           file |-> SymbolFile, line |-> nodes[n].line,
                           refCount |-> ReferenceCount(tree, nodes[n]) ])
    : matches \in {addMatches(tree, nodes, n - 1)},
      key \in {SymbolKey(SymbolFile, nodes[n].line, nodes[n].col, nodes[n].text)} })

\* matches.sort((a, b) => b.refCount - a.refCount)
SortByRefCount(matches) ==
  StableSort(matches, [i \in DOMAIN matches |-> [j \in DOMAIN matches |->
                         matches[j].refCount - matches[i].refCount]])

\* findSymbols of the batch plugin: the variable declarations and the
\* parameters of the whole file; an identifier is tested itself, a binding
\* pattern is searched for the identifiers it binds
findSymbolsWalkingPatterns(tree, pattern) ==
  The({
    The({ SortByRefCount(addMatches(tree, nodes, Len(nodes)))
          : nodes \in {SelectSeq(
              Flatten([k \in 1..Len(decls) |->
                         IF decls[k].name.node = "Identifier" THEN <<decls[k].name>>
                         ELSE addBindingPatternMatches(decls[k].name)]),
              LAMBDA n : TestCI(pattern, n.text))} })
    : decls \in {forEachDescendant(tree)} })

\* findSymbols of the refactor plugin: sourceFile.getVariableDeclarations(),
\* pattern.test(varDecl.getName()), addMatch(varDecl.getNameNode(), ...)
findSymbolsByDeclarationName(tree, pattern) ==
  The({
    The({ SortByRefCount(addMatches(tree, nodes, Len(nodes)))
          : nodes \in {SelectSeq(
              <<>> \o [k \in 1..Len(decls) |-> decls[k].name],
              LAMBDA n : TestCI(pattern, n.text))} })
    : decls \in {SelectSeq(tree, LAMBDA d :
                   d.node = "VariableDeclaration" /\ d.topLevel)} })

InitSymbols ==
  /\ fs = [p \in AllPaths |-> NoFile]
  /\ base = fs
  /\ editset = EmptyEditset
  /\ fileEditset = EmptyFileEditset
  /\ \E tree \in SyntaxTrees :
       last = Op("input", FALSE, [tree |-> tree, pattern |-> Pattern],
                 NotGiven, NotGiven, NoResult)
  /\ written = {}
  /\ backends = <<>>
  /\ tty = NoTty
  /\ consumed = {}
  /\ procs = <<>>
  /\ splice = <<>>

\* findSymbols(project, /wi/i), plugins/batch
FindSymbols ==
  /\ last.op = "input"
  /\ last' = [last EXCEPT !.op = "findSymbols.batch",
                          !.res = findSymbolsWalkingPatterns(last.input.tree,
                                                             last.input.pattern)]
  /\ UNCHANGED <<fs, editset, base, fileEditset,
                 written, consumed, procs, splice, backends, tty>>

\* findSymbols(project, /wi/i), plugins/refactor
FindSymbolsRefactorPlugin ==
  /\ last.op = "input"
  /\ last' = [last EXCEPT !.op = "findSymbols.refactor",
                          !.res = findSymbolsByDeclarationName(last.input.tree,
                                                               last.input.pattern)]
  /\ UNCHANGED <<fs, editset, base, fileEditset,
                 written, consumed, procs, splice, backends, tty>>

NextSymbols ==
  \/ FindSymbols
  \/ FindSymbolsRefactorPlugin

SpecSymbols == InitSymbols /\ [][NextSymbols]_vars

\* the identifiers a file binds: the names of its declarations and the names
\* of the binding elements of their patterns, at any depth
BoundIdentifiers(tree) ==
  {n \in UNION {Range(addBindingPatternMatches(d.name)) \cup {d.name}
                  : d \in Range(forEachDescendant(tree))} : n.node = "Identifier"}

\* C20: the symbols findSymbols returns are the identifiers bound by the
\* declarations and the destructuring patterns of the file, at any depth,
\* that match the search pattern, each once: no name holds a brace or a
\* comma, and no two symbols have the same file, line, column and name.
C20_DestructuredNamesFound ==
  last.op \in {"findSymbols.batch", "findSymbols.refactor"} =>
    LET symbols == last.res
    IN /\ \A n \in BoundIdentifiers(last.input.tree) :
            TestCI(last.input.pattern, n.text) =>
              \E k \in DOMAIN symbols :
                symbols[k].symbolKey = SymbolKey(SymbolFile, n.line, n.col, n.text)
       /\ \A k \in DOMAIN symbols :
            \A c \in Range(symbols[k].name) : c \notin {"{", "}", ","}
       /\ \A j, k \in DOMAIN symbols :
            symbols[j].symbolKey = symbols[k].symbolKey => j = k

-----------------------------------------------------------------------------
(* Discovery runs (SpecDiscover): refs.list and pattern.find list the      *)
(* references of the tree again and again, in any listing order of the     *)
(* engine, while the saved editset is narrowed with editset.select and     *)
(* other programs rewrite the files.                                       *)

\* refs.list <symbolKey>
RefsList ==
  \E ord \in Orders :
    LET syms == findSymbols(fs, Pattern, "first")
    IN \E k \in DOMAIN syms :
         /\ last' = Op("refs.list", FALSE,
                       [symbolKey |-> syms[k].symbolKey, ord |-> ord],
                       NotGiven, NotGiven,
                       [error |-> <<>>,
                        refs |-> getReferences(fs, syms[k].symbolKey, ord)])
         /\ UNCHANGED <<fs, editset, base, fileEditset, written, consumed, procs,
                        splice, backends, tty>>

\* editset.select <file> --exclude <refId>
Deselect ==
  /\ editset.operation # "none"
  /\ \E k \in DOMAIN editset.refs :
       /\ editset.refs[k].selected
       /\ editset' = filterEditset(editset, NotGiven, Given({editset.refs[k].refId}))
       /\ last' = Op("select", FALSE, EmptyEditset, NotGiven,
                     Given({editset.refs[k].refId}), NoResult)
  /\ UNCHANGED <<fs, base, fileEditset, written, consumed, procs, splice, backends, tty>>

\* an editset is saved for the initial tree
InitDiscover ==
  /\ fs \in SourceTrees
  /\ base = fs
  /\ editset \in RaceEditsets(fs)
  /\ fileEditset = EmptyFileEditset
  /\ last = NoOp
  /\ written = {}
  /\ backends = <<>>
  /\ tty = NoTty
  /\ consumed = {}
  /\ procs = <<>>
  /\ splice = <<>>

NextDiscover ==
  \/ RefsList
  \/ PatternFind
  \/ Deselect
  \/ ExternalWrite

SpecDiscover == InitDiscover /\ [][NextDiscover]_vars

\* the refIds of a list of refs
IdSet(refs) == {refs[k].refId : k \in DOMAIN refs}

\* the same discovery, asked twice
SameQuery(a, b) ==
  /\ a.op = b.op
  /\ a.op = "refs.list" => a.input.symbolKey = b.input.symbolKey
  /\ a.op = "pattern.find" => a.input = b.input

\* C21: two discovery runs of the same query with no change of the files in
\* between give the same set of refIds, whatever the listing order, and a ref
\* of a discovery run has the refId of any ref of the same file and range in
\* that run or in the saved editset, whatever their checksums and selected
\* flags.
C21_RefIdIsFunctionOfLocation ==
  [][ last'.op \in {"refs.list", "pattern.find"} =>
        /\ (last.op \in {"refs.list", "pattern.find"} /\ SameQuery(last, last')) =>
              IdSet(last.res.refs) = IdSet(last'.res.refs)
        /\ \A j \in DOMAIN last'.res.refs :
             LET r == last'.res.refs[j]
             IN /\ \A k \in DOMAIN last'.res.refs :
                     (last'.res.refs[k].file = r.file /\ last'.res.refs[k].range = r.range)
                       => last'.res.refs[k].refId = r.refId
                /\ \A k \in DOMAIN editset.refs :
                     (editset.refs[k].file = r.file /\ editset.refs[k].range = r.range)
                       => editset.refs[k].refId = r.refId
    ]_vars

\* a discovery in reverse listing order finds a reference at a location that
\* the saved editset holds deselected and with the checksum of another content
C21_Witness ==
  /\ last.op = "refs.list"
  /\ last.input.ord = "rev"
  /\ Len(last.res.refs) >= 2
  /\ \E j \in DOMAIN last.res.refs, k \in DOMAIN editset.refs :
       /\ editset.refs[k].file = last.res.refs[j].file
       /\ editset.refs[k].range = last.res.refs[j].range
       /\ editset.refs[k].checksum # last.res.refs[j].checksum
       /\ ~editset.refs[k].selected

-----------------------------------------------------------------------------
(* Saving and loading an editset (SpecRoundTrip).  A JavaScript value is   *)
(* a record that says what it is; a JSON text is a sequence of tokens: one *)
(* token per character of a string literal and per punctuation mark, one   *)
(* token for a number and for true / false.                                *)

MaxRefs == 2
MaxNum == 9

Q == "\""
BS == "\\"

JsValue(type, str, num, bool, keys, items) ==
  [type |-> type, str |-> str, num |-> num, bool |-> bool, keys |-> keys, items |-> items]

JsString(s) == JsValue("string", s, 0, FALSE, <<>>, <<>>)
JsNumber(n) == JsValue("number", <<>>, n, FALSE, <<>>, <<>>)
JsBoolean(b) == JsValue("boolean", <<>>, 0, b, <<>>, <<>>)
JsArray(items) == JsValue("array", <<>>, 0, FALSE, <<>>, items)
\* an object: its property names in insertion order, and their values
JsObject(keys, items) == JsValue("object", <<>>, 0, FALSE, keys, items)
JsUndefined == JsValue("undefined", <<>>, 0, FALSE, <<>>, <<>>)

\* QuoteJSONString: the characters of a string literal
Escape(c) ==
  IF c = Q THEN <<BS, Q>>
  ELSE IF c = BS THEN <<BS, BS>>
  ELSE IF c = NL THEN <<BS, "n">>
  ELSE <<c>>

Quote(s) == <<Q>> \o Flatten([k \in 1..Len(s) |-> Escape(s[k])]) \o <<Q>>

\* an escape read as the character after the backslash
UnescapeLiteral(c) == c

\* the character an escape sequence \c stands for
Unescape(c) == IF c = "n" THEN NL ELSE c

\* items joined by "," and a line break, as JSON.stringify(value, null, 2)
\* lays them out
RECURSIVE Join(_)
Join(texts) ==
  IF texts = <<>> THEN <<>>
  ELSE IF Len(texts) = 1 THEN texts[1]
  ELSE texts[1] \o <<",", NL, SP>> \o Join(Tail(texts))

\* JSON.stringify(value, null, 2)
RECURSIVE stringify(_)
stringify(value) ==
  CASE value.type = "string" -> Quote(value.str)
    [] value.type = "number" -> <<ToString(value.num)>>
    [] value.type = "boolean" -> <<IF value.bool THEN "true" ELSE "false">>
    [] value.type = "array" ->
         IF value.items = <<>> THEN <<"[", "]">>
         ELSE <<"[", NL, SP>>
                \o Join([k \in 1..Len(value.items) |-> stringify(value.items[k])])
                \o <<NL, "]">>
    [] OTHER ->
         The({ IF kept = <<>> THEN <<"{", "}">>
               ELSE <<"{", NL, SP>>
                      \o Join([k \in 1..Len(kept) |->
                                 Quote(value.keys[kept[k]]) \o <<":", SP>>
                                   \o stringify(value.items[kept[k]])])
                      \o <<NL, "}">>
               : kept \in {SelectSeq(<<>> \o [k \in 1..Len(value.keys) |-> k],
                                     LAMBDA k : value.items[k].type # "undefined")} })

\* the index of the first token from i on that is not white space
RECURSIVE SkipWhiteSpace(_, _)
SkipWhiteSpace(text, i) ==
  IF i <= Len(text) /\ text[i] \in {NL, SP} THEN SkipWhiteSpace(text, i + 1) ELSE i

\* the characters of a string literal from i on (after the opening quote),
\* and the index after its closing quote
RECURSIVE ScanString(_, _, _)
ScanString(text, i, acc) ==
  IF text[i] = Q THEN [str |-> acc, i |-> i + 1]
  ELSE IF text[i] = BS THEN ScanString(text, i + 2, Append(acc, Unescape(text[i + 1])))
  ELSE ScanString(text, i + 1, Append(acc, text[i]))

\* JSON.parse: the value that starts at token i, and the index after it
RECURSIVE ParseValue(_, _)
RECURSIVE ParseElements(_, _, _)
RECURSIVE ParseMembers(_, _, _, _)
ParseValue(text, i) ==
  The({
    CASE text[j] = "{" -> ParseMembers(text, j + 1, <<>>, <<>>)
      [] text[j] = "[" -> ParseElements(text, j + 1, <<>>)
      [] text[j] = Q ->
           The({ [val |-> JsString(s.str), i |-> s.i]
                 : s \in {ScanString(text, j + 1, <<>>)} })
      [] text[j] \in {"true", "false"} ->
           [val |-> JsBoolean(text[j] = "true"), i |-> j + 1]
      [] OTHER ->
           [val |-> JsNumber(CHOOSE n \in 0..MaxNum : ToString(n) = text[j]), i |-> j + 1]
    : j \in {SkipWhiteSpace(text, i)} })

ParseElements(text, i, items) ==
  The({
    IF text[j] = "]" THEN [val |-> JsArray(items), i |-> j + 1]
    ELSE IF text[j] = "," THEN ParseElements(text, j + 1, items)
    ELSE The({ ParseElements(text, r.i, Append(items, r.val))
               : r \in {ParseValue(text, j)} })
    : j \in {SkipWhiteSpace(text, i)} })

ParseMembers(text, i, keys, items) ==
  The({
    IF text[j] = "}" THEN [val |-> JsObject(keys, items), i |-> j + 1]
    ELSE IF text[j] = "," THEN ParseMembers(text, j + 1, keys, items)
    ELSE The({
      The({ ParseMembers(text, r.i, Append(keys, key.str), Append(items, r.val))
            : r \in {ParseValue(text, SkipWhiteSpace(text, key.i) + 1)} })
      : key \in {ScanString(text, j + 1, <<>>)} })
    : j \in {SkipWhiteSpace(text, i)} })

parse(text) == ParseValue(text, 1).val

\* saveEditset(editset, outputPath): the tree afterwards
saveEditset(fsv, es, outputPath) == [fsv EXCEPT ![outputPath] = stringify(es)]

\* loadEditset(inputPath)
loadEditset(fsv, inputPath) ==
  IF ~existsSync(fsv, inputPath)
    THEN [error |-> "Editset file not found", editset |-> JsUndefined]
    ELSE [error |-> "", editset |-> parse(fsv[inputPath])]

\* the strings of an editset: plain, with a quote, with a backslash, with a
\* line break, empty
JsStrings == { <<"a">>, <<"a", Q, "b">>, <<BS, "n">>, <<"a", NL>>, <<>> }

ReferenceValue(s, line, selected) ==
  JsObject(<<<<"refId">>, <<"file">>, <<"range">>, <<"preview">>, <<"checksum">>,
             <<"selected">>>>,
           << JsString(<<"r", ToString(line)>>), JsString(<<"a", ".", "t", "s">>),
              JsArray(<<JsNumber(line), JsNumber(1), JsNumber(line), JsNumber(3)>>),
              JsString(s), JsString(<<"c">>), JsBoolean(selected) >>)

EditValue(s, line) ==
  JsObject(<<<<"file">>, <<"offset">>, <<"length">>, <<"replacement">>>>,
           << JsString(<<"a", ".", "t", "s">>), JsNumber(3 * (line - 1)),
              JsNumber(2), JsString(s) >>)

\* an Editset with n refs and their edits, in descending order of offset
EditsetValue(from, to, selected, n) ==
  JsObject(<<<<"id">>, <<"operation">>, <<"from">>, <<"to">>, <<"refs">>, <<"edits">>,
             <<"createdAt">>>>,
           << JsString(<<"rename-">> \o from \o <<"-to-">> \o to),
              JsString(<<"rename">>), JsString(from), JsString(to),
              JsArray(<<>> \o [k \in 1..n |-> ReferenceValue(from, k, selected \/ k > 1)]),
              JsArray(<<>> \o [k \in 1..n |-> EditValue(to, n + 1 - k)]),
              JsString(<<"2", "0", "2", "5", ":", "0", "0", "Z">>) >>)

EditsetValues ==
  { EditsetValue(from, to, selected, n) :
      from \in JsStrings, to \in JsStrings, selected \in BOOLEAN, n \in 0..MaxRefs }

InitRoundTrip ==
  /\ fs = [p \in {EditsetFile, MissingFile} |-> NoFile]
  /\ base = fs
  /\ editset = EmptyEditset
  /\ fileEditset = EmptyFileEditset
  /\ \E es \in EditsetValues :
       last = Op("input", FALSE, [editset |-> es, saved |-> FALSE],
                 NotGiven, NotGiven, NoResult)
  /\ written = {}
  /\ backends = <<>>
  /\ tty = NoTty
  /\ consumed = {}
  /\ procs = <<>>
  /\ splice = <<>>

\* saveEditset(editset, "editset.json")
SaveEditset ==
  /\ fs' = saveEditset(fs, last.input.editset, EditsetFile)
  /\ last' = [last EXCEPT !.op = "save", !.input.saved = TRUE]
  /\ UNCHANGED <<editset, base, fileEditset, written, consumed, procs, splice, backends, tty>>

\* loadEditset(path)
LoadEditset ==
  \E path \in {EditsetFile, MissingFile} :
    /\ last' = [last EXCEPT !.op = "load", !.res = loadEditset(fs, path),
                            !.include = Given({path})]
    /\ UNCHANGED <<fs, editset, base, fileEditset, written, consumed, procs, splice,
                   backends, tty>>

NextRoundTrip ==
  \/ SaveEditset
  \/ LoadEditset

SpecRoundTrip == InitRoundTrip /\ [][NextRoundTrip]_vars

\* deep equality of two values: the same kind of value, the same primitive,
\* the same elements in the same order, the same properties with equal values
RECURSIVE DeepEqual(_, _)
DeepEqual(a, b) ==
  /\ a.type = b.type
  /\ a.str = b.str /\ a.num = b.num /\ a.bool = b.bool
  /\ Len(a.items) = Len(b.items)
  /\ Range(a.keys) = Range(b.keys) /\ Len(a.keys) = Len(b.keys)
  /\ a.type = "array" => \A k \in DOMAIN a.items : DeepEqual(a.items[k], b.items[k])
  /\ a.type = "object" =>
       \A k \in DOMAIN a.keys : \E j \in DOMAIN b.keys :
         b.keys[j] = a.keys[k] /\ DeepEqual(a.items[k], b.items[j])

\* C22: loadEditset of the path that saveEditset(E, path) wrote returns a
\* value deep-equal to E; loadEditset of a path that no file has raises the
\* not-found error and returns no editset.
C22_SaveLoadRoundTrip ==
  last.op = "load" =>
    IF last.include = Given({EditsetFile}) /\ last.input.saved
      THEN /\ last.res.error = ""
           /\ DeepEqual(last.res.editset, last.input.editset)
      ELSE /\ last.res.error = "Editset file not found"
           /\ last.res.editset = JsUndefined

\* an editset with two refs, one of them deselected, and strings that hold a
\* quote and a line break has been saved and loaded
C22_Witness ==
  /\ last.op = "load"
  /\ last.include = Given({EditsetFile})
  /\ last.input.saved
  /\ last.res.error = ""
  /\ Len(last.res.editset.items[5].items) = 2
  /\ ~last.res.editset.items[5].items[1].items[6].bool
  /\ last.res.editset.items[3].str = <<"a", Q, "b">>
  /\ last.res.editset.items[4].str = <<"a", NL>>

-----------------------------------------------------------------------------
(* Batch proposals (SpecBatch): rename.batch saves an editset for the tree *)
(* as other programs leave it.                                             *)

NextBatch ==
  \/ RenameBatch
  \/ ExternalWrite

SpecBatch == InitApply /\ [][NextBatch]_vars

\* the text that a ref / an edit of the saved editset names in the tree the
\* editset was proposed for
RefText(r) ==
  slice(base[r.file], OffsetOf(base[r.file], r.range[1], r.range[2]),
        OffsetOf(base[r.file], r.range[3], r.range[4]))

EditText(e) == slice(base[e.file], e.offset, e.offset + e.length)

\* C23: in an editset of createBatchRenameProposal no two edits have the same
\* file, offset and length and no two refs have the same refId, and no ref
\* and no edit is at a name whose case-preserved new name is the name itself.
C23_BatchOccurrencesOnce ==
  editset.operation # "none" =>
    /\ \A j, k \in DOMAIN editset.edits :
         ( /\ editset.edits[j].file = editset.edits[k].file
           /\ editset.edits[j].offset = editset.edits[k].offset
           /\ editset.edits[j].length = editset.edits[k].length ) => j = k
    /\ \A j, k \in DOMAIN editset.refs :
         editset.refs[j].refId = editset.refs[k].refId => j = k
    /\ \A k \in DOMAIN editset.refs :
         computeNewName(RefText(editset.refs[k]), editset.from, editset.to)
           # RefText(editset.refs[k])
    /\ \A k \in DOMAIN editset.edits :
         computeNewName(EditText(editset.edits[k]), editset.from, editset.to)
           # EditText(editset.edits[k])
    /\ (computeNewName(editset.from, editset.from, editset.to) = editset.from) =>
         editset.refs = <<>> /\ editset.edits = <<>>

\* a batch editset for a tree in which every occurrence is reached through
\* two matching symbols, with one ref and one edit for each occurrence
C23_Witness ==
  /\ editset.operation # "none"
  /\ Len(editset.edits) >= 2
  /\ Len(editset.refs) = Len(editset.edits)
  /\ Len(RenamedSymbols(base, editset.from, editset.to, "all")) > Len(editset.refs) - 1
  /\ \E ord \in Orders :
       editset = createBatchRenameProposal(base, editset.from, editset.to, "all", ord)

-----------------------------------------------------------------------------
(* Offsets of the edits (SpecOffsets): the three proposers on trees whose  *)
(* files also have a line with a character outside ASCII before the search *)
(* term.                                                                   *)

OffsetContents == Contents \cup { <<Eacute, SP, "w", "i">> }

OffsetTrees ==
  {t \in [AllPaths -> OffsetContents \cup {NoFile}] :
     \A p \in AllPaths : (t[p] = NoFile) <=> (p \notin Paths)}

InitOffsets ==
  /\ fs \in OffsetTrees
  /\ editset = EmptyEditset
  /\ base = fs
  /\ fileEditset = EmptyFileEditset
  /\ last = NoOp
  /\ written = {}
  /\ backends = <<>>
  /\ tty = NoTty
  /\ consumed = {}
  /\ procs = <<>>
  /\ splice = <<>>

\* an editor rewrites a source file
Rewrite ==
  \E p \in Paths, c \in OffsetContents :
    /\ fs[p] # c
    /\ fs' = [fs EXCEPT ![p] = c]
    /\ last' = Op("external", FALSE, EmptyEditset, NotGiven, NotGiven, NoResult)
    /\ written' = written \ {p}
    /\ consumed' = consumed \ {p}
    /\ UNCHANGED <<editset, base, fileEditset, procs, splice, backends, tty>>

NextOffsets ==
  \/ RenamePropose
  \/ RenameBatch
  \/ PatternReplace
  \/ Rewrite

SpecOffsets == InitOffsets /\ [][NextOffsets]_vars

\* the offset of a line and column of a text: the lengths of the lines
\* before it, each with its line break, and the columns before it
OffsetByLines(content, line, col) ==
  LET lines == split(content)
  IN SumSeq([k \in 1..(line - 1) |-> Len(lines[k]) + 1]) + (col - 1)

\* C24: the saved editset has one edit for each of its refs and no other,
\* in the ref's file and at the offset of the ref's start line and column,
\* and the proposal-time content of the file holds the replaced name or the
\* matched text at [offset, offset + length) of every edit.
C24_OneEditPerRefAtItsOffset ==
  editset.operation # "none" =>
    /\ Len(editset.edits) = Len(editset.refs)
    /\ \A k \in DOMAIN editset.refs :
         Cardinality({j \in DOMAIN editset.edits :
            /\ editset.edits[j].file = editset.refs[k].file
            /\ editset.edits[j].offset =
                 OffsetByLines(base[editset.refs[k].file],
                               editset.refs[k].range[1], editset.refs[k].range[2])}) = 1
    /\ \A j \in DOMAIN editset.edits : EditText(editset.edits[j]) = editset.from

-----------------------------------------------------------------------------
(* Chains of editset.select (SpecSelect): each run loads the saved         *)
(* editset, filters it and saves the result over it.                       *)

\* editset.select <file> with --include ids or --exclude ids; last.input
\* keeps the editset as it was proposed
EditsetSelect ==
  /\ editset.operation # "none"
  /\ \E include \in IdLists(editset), exclude \in IdLists(editset) :
       /\ include = NotGiven \/ exclude = NotGiven
       /\ editset' = filterEditset(editset, include, exclude)
       /\ last' = Op("select", FALSE,
                     IF last.op = "select" THEN last.input ELSE editset,
                     include, exclude,
                     [ selectedRefs |->
                         Len(SelectSeq(filterEditset(editset, include, exclude).refs,
                                       LAMBDA r : r.selected)),
                       totalRefs |-> Len(editset.refs) ])
  /\ UNCHANGED <<fs, base, fileEditset, written, consumed, procs, splice, backends, tty>>

NextSelect ==
  \/ EditsetSelect

SpecSelect == InitDiscover /\ [][NextSelect]_vars

\* C25: after any chain of editset.select runs the edits of the editset are
\* the edits of the proposed editset whose file has a selected ref, in the
\* proposed order.
C25_ChainedFilterKeepsOriginalEdits ==
  last.op = "select" =>
    editset.edits = SelectSeq(last.input.edits, LAMBDA e : e.file \in SelectedFiles(editset))
-----------------------------------------------------------------------------
(* The terminal backend: ttyd servers, sessions and the session registry *)

\* Bounds: tool calls of tty_start, close() calls, and shutdown() calls.
MaxCalls == 2
MaxCloses == 3

\* JavaScript values a property read can give.
Undefined == "undefined"
JsTrue == "true"
JsFalse == "false"

\* `!v` is true for undefined and false.
Truthy(v) == v = JsTrue

\* obj[key]: a property the object does not have reads as undefined.
Get(obj, key) == IF key \in DOMAIN obj THEN obj[key] ELSE Undefined

\* createTTY: the closure state of one ttyd server. spawn() runs inside the
\* call, so the child runs from the start; `process` stays null until a
\* spawn attempt has resolved. After the start-up the exit listener of
\* trySpawnTtyd is removed (cleanup), so a later exit of the child changes
\* nothing in the closure.
createTTY ==
  [ ready |-> "pending", process |-> FALSE, os |-> "running", killed |-> FALSE ]

\* The object createTTY returns: url, port, ready, close, asyncDispose.
TtydServer(srv) ==
  [ url |-> "http://127.0.0.1", port |-> "port", ready |-> srv.ready,
    close |-> "close", asyncDispose |-> "close" ]

\* One close() in flight: of a session (context first) or of a server alone.
CloseCall(server, session, pc) ==
  [ server |-> server, session |-> session, pc |-> pc ]

NoShutdown == [ pc |-> "none", rest |-> <<>>, waiting |-> 0 ]

\* A new PlaywrightTtyBackend: no session, no call.
NewBackend ==
  [ servers |-> <<>>, sessions |-> <<>>, registry |-> {}, calls |-> <<>>,
    closes |-> <<>>, returned |-> {}, shutdown |-> NoShutdown ]

\* ttyd close(), up to its first await: nothing to do when `process` is
\* null; otherwise the handle is taken, SIGTERM is sent and the call waits
\* for the exit event or the 2 s timer.
close(t, c) ==
  LET s == t.closes[c].server IN
  IF ~t.servers[s].process
    THEN [t EXCEPT !.closes[c].pc = "done"]
    ELSE [t EXCEPT !.servers[s].process = FALSE, !.closes[c].pc = "race"]

\* A call of ttyd.close() on server s.
ttydClose(t, s) ==
  close([t EXCEPT !.closes = Append(@, CloseCall(s, 0, "race"))],
        Len(t.closes) + 1)

\* session.close(), up to its first await: context.close() is under way.
sessionClose(t, i) ==
  [t EXCEPT !.closes = Append(@, CloseCall(t.sessions[i].server, i, "context"))]

\* The `alive` getter of a session: !page.isClosed() && ttyd.isRunning.
alive(t, i) ==
  IF t.sessions[i].pageClosed
    THEN JsFalse
    ELSE Get(TtydServer(t.servers[t.sessions[i].server]), "isRunning")

\* What the claim calls alive: the page is open and the ttyd child runs.
PageOpenAndTtydRunning(t, i) ==
  /\ ~t.sessions[i].pageClosed
  /\ t.servers[t.sessions[i].server].os = "running"

\* this.sessions.get(sessionId): the registered session of that id, or 0.
sessionsGet(t, id) ==
  IF \E i \in t.registry : t.sessions[i].id = id
    THEN CHOOSE i \in t.registry : t.sessions[i].id = id
    ELSE 0

\* Removal of registered session i as getSession and cleanupStaleSessions
\* do it: session.close() is started and not awaited, the entry is deleted.
RemoveDead(t, i) ==
  [sessionClose(t, i) EXCEPT !.registry = @ \ {i}]

RECURSIVE RemoveAllDead(_, _)
RemoveAllDead(t, todo) ==
  IF todo = {} THEN t
  ELSE LET i == CHOOSE j \in todo : \A k \in todo : j <= k IN
       RemoveAllDead(IF Truthy(alive(t, i)) THEN t ELSE RemoveDead(t, i),
                     todo \ {i})

cleanupStaleSessions(t) == RemoveAllDead(t, t.registry)

\* getSession: the backend afterwards and the outcome.
getSession(t, id) ==
  LET i == sessionsGet(t, id) IN
  IF i = 0
    THEN [ tty |-> t, session |-> 0, error |-> "Session not found" ]
  ELSE IF ~Truthy(alive(t, i))
    THEN [ tty |-> RemoveDead(t, i), session |-> 0, error |-> "Session is dead" ]
  ELSE [ tty |-> t, session |-> i, error |-> "" ]

\* The number of close() calls a cleanup would start.
DeadCount(t) == Cardinality({i \in t.registry : ~Truthy(alive(t, i))})
\* One callTool("tty_start") in flight. The id is the one generateId() drew
\* (a fresh one for every call); both attempts of a call use it. `spawned`
\* lists the ttyd servers its createSession calls have created.
Call(id, server) ==
  [ id |-> id, attempt |-> 0, pc |-> "spawn", server |-> server,
    spawned |-> <<server>>, timedOut |-> FALSE, settled |-> "pending" ]

Session(id, server) == [ id |-> id, server |-> server, pageClosed |-> FALSE ]

TtyOp(op, input, res) == Op(op, FALSE, input, NotGiven, NotGiven, res)

TtyUnchanged ==
  UNCHANGED <<fs, editset, base, fileEditset, written, consumed, procs,
              splice, backends>>

\* closeBrowser(): browser.close() closes every context and page of it.
closeBrowser(t) ==
  [t EXCEPT !.sessions = [i \in DOMAIN @ |-> [@[i] EXCEPT !.pageClosed = TRUE]]]

\* The promise of the call is settled once: by the timer of withTimeout or
\* by handleTool, whichever comes first.
Settle(t, c, how) ==
  IF t.calls[c].settled = "pending"
    THEN [t EXCEPT !.calls[c].settled = how]
    ELSE t

\* The catch block of the attempt loop of tty_start: after the first
\* failure the browser is closed and createSession is called again, which
\* calls createTTY again; after the second the error is thrown. Nothing
\* closes the ttyd of the failed attempt.
attemptFailed(t, c) ==
  IF t.calls[c].attempt = 0
    THEN [closeBrowser(t) EXCEPT
            !.servers = Append(@, createTTY),
            !.calls[c].attempt = 1,
            !.calls[c].pc = "spawn",
            !.calls[c].server = Len(t.servers) + 1,
            !.calls[c].spawned = Append(@, Len(t.servers) + 1)]
    ELSE Settle([t EXCEPT !.calls[c].pc = "done"], c, "rejected")

\* The exit event of the child of server s: every close() waiting on it
\* with a listener goes on.
exit(t, s) ==
  [t EXCEPT
     !.servers[s].os = "exited",
     !.closes = [c \in DOMAIN @ |->
                   IF @[c].server = s /\ @[c].pc \in {"race", "awaitExit"}
                     THEN [@[c] EXCEPT !.pc = "done"]
                     ELSE @[c]]]

\* callTool("tty_start") up to the first await of handleTool: the id is
\* drawn, the browser is there, createSession has called createTTY.
StartCall ==
  /\ Len(tty.calls) < MaxCalls
  /\ tty' = [tty EXCEPT
               !.servers = Append(@, createTTY),
               !.calls = Append(@, Call(Len(tty.calls) + 1, Len(tty.servers) + 1))]
  /\ last' = TtyOp("tty_start", [sessionId |-> Len(tty.calls) + 1], <<>>)
  /\ TtyUnchanged

\* trySpawnTtyd resolves: ttyd listens, `process` is set, ready resolves and
\* createSession goes on to the page.
SpawnOk(c) ==
  /\ tty.calls[c].pc = "spawn"
  /\ tty.servers[tty.calls[c].server].os = "running"
  /\ tty' = [tty EXCEPT
               !.servers[tty.calls[c].server].ready = "ok",
               !.servers[tty.calls[c].server].process = TRUE,
               !.calls[c].pc = "page"]
  /\ last' = TtyOp("step", [sessionId |-> tty.calls[c].id], <<>>)
  /\ TtyUnchanged

\* trySpawnTtyd rejects (ttyd exited, or the start-up timeout killed it):
\* ready rejects and so does createSession.
SpawnFail(c) ==
  /\ tty.calls[c].pc = "spawn"
  /\ tty' = attemptFailed(
              [exit(tty, tty.calls[c].server) EXCEPT
                 !.servers[tty.calls[c].server].ready = "failed"], c)
  /\ last' = TtyOp("step", [sessionId |-> tty.calls[c].id], <<>>)
  /\ TtyUnchanged

\* page.goto and performWait resolve: createSession returns the session,
\* handleTool registers it and returns its id. The timer of withTimeout
\* does not stop handleTool, so this also runs after the call timed out.
PageOk(c) ==
  /\ tty.calls[c].pc = "page"
  /\ tty.servers[tty.calls[c].server].os = "running"
  /\ tty' = Settle(
              [tty EXCEPT
                 !.sessions = Append(@, Session(tty.calls[c].id, tty.calls[c].server)),
                 !.registry = @ \cup {Len(tty.sessions) + 1},
                 !.calls[c].pc = "done",
                 !.returned = IF tty.calls[c].settled = "pending"
                                THEN @ \cup {tty.calls[c].id} ELSE @],
              c, "resolved")
  /\ last' = TtyOp("step", [sessionId |-> tty.calls[c].id], <<>>)
  /\ TtyUnchanged

\* newContext, newPage, page.goto or performWait throws: createSession
\* rejects with its ttyd running.
PageFail(c) ==
  /\ tty.calls[c].pc = "page"
  /\ tty' = attemptFailed(tty, c)
  /\ last' = TtyOp("step", [sessionId |-> tty.calls[c].id], <<>>)
  /\ TtyUnchanged

\* The timer of withTimeout fires before handleTool has settled: callTool
\* cleans up the stale sessions and rejects.
Timeout(c) ==
  /\ tty.calls[c].settled = "pending"
  /\ Len(tty.closes) + DeadCount(tty) <= MaxCloses
  /\ tty' = cleanupStaleSessions(
              [tty EXCEPT !.calls[c].timedOut = TRUE,
                          !.calls[c].settled = "rejected"])
  /\ last' = TtyOp("timeout", [sessionId |-> tty.calls[c].id], <<>>)
  /\ TtyUnchanged

\* A tool that looks its session up (tty_press, tty_type, tty_text, ...).
TtyPress(id) ==
  /\ Len(tty.closes) < MaxCloses
  /\ tty' = getSession(tty, id).tty
  /\ last' = TtyOp("tty_press", [sessionId |-> id],
                   [ session |-> getSession(tty, id).session,
                     error |-> getSession(tty, id).error ])
  /\ TtyUnchanged

\* tty_list: the stale sessions are removed, the others are listed.
TtyList ==
  /\ Len(tty.closes) + DeadCount(tty) <= MaxCloses
  /\ tty' = cleanupStaleSessions(tty)
  /\ last' = TtyOp("tty_list", [sessionId |-> 0],
                   [ session |-> 0, error |-> "",
                     sessions |-> cleanupStaleSessions(tty).registry ])
  /\ TtyUnchanged

\* The page of a session is closed from outside (crash, browser gone).
PageCloses(i) ==
  /\ ~tty.sessions[i].pageClosed
  /\ tty' = [tty EXCEPT !.sessions[i].pageClosed = TRUE]
  /\ last' = TtyOp("event", [sessionId |-> 0], <<>>)
  /\ TtyUnchanged

\* A ttyd that was started exits: on its own, or on SIGTERM.
TtydExits(s) ==
  /\ tty.servers[s].ready = "ok"
  /\ tty.servers[s].os = "running"
  /\ tty' = exit(tty, s)
  /\ last' = TtyOp("event", [sessionId |-> 0], <<>>)
  /\ TtyUnchanged

\* A ttyd that was sent SIGKILL exits.
Reap(s) ==
  /\ tty.servers[s].os = "running"
  /\ tty.servers[s].killed
  /\ tty' = exit(tty, s)
  /\ last' = TtyOp("event", [sessionId |-> 0], <<>>)
  /\ TtyUnchanged

\* close() is called on a ttyd server, whatever state it is in.
TtydClose(s) ==
  /\ Len(tty.closes) < MaxCloses
  /\ tty' = ttydClose(tty, s)
  /\ last' = TtyOp("close", [sessionId |-> 0], <<>>)
  /\ TtyUnchanged

\* context.close() of a session.close() resolves; ttyd.close() is called.
ContextClosed(c) ==
  /\ tty.closes[c].pc = "context"
  /\ tty' = close([tty EXCEPT !.sessions[tty.closes[c].session].pageClosed = TRUE], c)
  /\ last' = TtyOp("step", [sessionId |-> 0], <<>>)
  /\ TtyUnchanged

\* The 2 s timer of close() wins the race: SIGKILL is sent and close()
\* waits for an exit event with a new listener.
TimerFires(c) ==
  /\ tty.closes[c].pc = "race"
  /\ tty' = [tty EXCEPT
               !.servers[tty.closes[c].server].killed =
                  (tty.servers[tty.closes[c].server].os = "running"),
               !.closes[c].pc = "awaitExit"]
  /\ last' = TtyOp("step", [sessionId |-> 0], <<>>)
  /\ TtyUnchanged

\* shutdown(): the sessions are closed one after the other, each close is
\* awaited; then the registry is cleared and the browser closed.
shutdownLoop(t) ==
  LET todo == t.registry \ Range(t.shutdown.rest) IN
  IF todo = {}
    THEN [closeBrowser(t) EXCEPT !.registry = {}, !.shutdown.pc = "done",
                                 !.shutdown.waiting = 0]
    ELSE LET i == CHOOSE j \in todo : \A k \in todo : j <= k IN
         [sessionClose(t, i) EXCEPT
            !.shutdown.pc = "loop",
            !.shutdown.rest = Append(@, i),
            !.shutdown.waiting = Len(t.closes) + 1]

Shutdown ==
  /\ tty.shutdown.pc = "none"
  /\ Len(tty.closes) < MaxCloses
  /\ tty' = shutdownLoop(tty)
  /\ last' = TtyOp("shutdown", [sessionId |-> 0], <<>>)
  /\ TtyUnchanged

ShutdownNext ==
  /\ tty.shutdown.pc = "loop"
  /\ tty.closes[tty.shutdown.waiting].pc = "done"
  /\ tty.registry \ Range(tty.shutdown.rest) # {} => Len(tty.closes) < MaxCloses
  /\ tty' = shutdownLoop(tty)
  /\ last' = TtyOp("step", [sessionId |-> 0], <<>>)
  /\ TtyUnchanged

InitTty ==
  /\ fs = [p \in {EditsetFile} |-> NoFile]
  /\ base = fs
  /\ editset = EmptyEditset
  /\ fileEditset = EmptyFileEditset
  /\ last = NoOp
  /\ written = {}
  /\ consumed = {}
  /\ procs = <<>>
  /\ splice = <<>>
  /\ backends = <<>>
  /\ tty = NewBackend

\* The session ids a tool can be called with: the ids of the calls and one
\* that no call drew.
SessionIds == 1..(MaxCalls + 1)

NextTty ==
  \/ StartCall
  \/ \E c \in DOMAIN tty.calls : SpawnOk(c)
  \/ \E c \in DOMAIN tty.calls : SpawnFail(c)
  \/ \E c \in DOMAIN tty.calls : PageOk(c)
  \/ \E c \in DOMAIN tty.calls : PageFail(c)
  \/ \E c \in DOMAIN tty.calls : Timeout(c)
  \/ \E id \in SessionIds : TtyPress(id)
  \/ TtyList
  \/ \E i \in DOMAIN tty.sessions : PageCloses(i)
  \/ \E s \in DOMAIN tty.servers : TtydExits(s)
  \/ \E s \in DOMAIN tty.servers : Reap(s)
  \/ \E c \in DOMAIN tty.closes : ContextClosed(c)
  \/ \E c \in DOMAIN tty.closes : TimerFires(c)

SpecTty == InitTty /\ [][NextTty]_vars
\* C26: getSession(id) returns the session exactly when id is registered and
\* the session is alive (its page is not closed and its ttyd process runs);
\* for a registered dead session it removes the entry and raises the dead
\* error, for an unregistered id it raises the not-found error; and tty_list
\* reports no dead session.
C26_GetSessionReturnsLiveSessions ==
  [][ /\ last'.op = "tty_press" =>
           LET i == sessionsGet(tty, last'.input.sessionId) IN
           /\ (last'.res.session # 0) <=>
                (i # 0 /\ PageOpenAndTtydRunning(tty, i))
           /\ last'.res.session # 0 =>
                /\ last'.res.session = i
                /\ i \in tty'.registry
           /\ (i # 0 /\ ~PageOpenAndTtydRunning(tty, i)) =>
                /\ i \notin tty'.registry
                /\ last'.res.error = "Session is dead"
           /\ i = 0 => last'.res.error = "Session not found"
      /\ last'.op = "tty_list" =>
           \A i \in last'.res.sessions : PageOpenAndTtydRunning(tty, i)
    ]_vars
-----------------------------------------------------------------------------
(* The counts of applyFileRenames *)

\* C27: for every call of applyFileRenames that returns, applied + skipped is
\* the number of fileOps of the editset and errors has one string per
\* skipped op, in dry runs and in real runs.
C27_EveryOpCountedOnce ==
  [][ (last'.op = "files.apply" /\ "applied" \in DOMAIN last'.res) =>
        /\ last'.res.applied + last'.res.skipped = Len(fileEditset.fileOps)
        /\ Len(last'.res.errors) = last'.res.skipped
    ]_vars

\* A real run returned with one op renamed and another skipped because its
\* renameSync threw.
C27_Witness ==
  /\ last.op = "files.apply"
  /\ ~last.dryRun
  /\ "applied" \in DOMAIN last.res
  /\ last.res.applied > 0
  /\ last.res.skipped > 0
  /\ \E e \in Range(last.res.errors) : e[2] = "rename failed"
-----------------------------------------------------------------------------
(* Rename targets that exist when the rename is made *)

\* The regular files of a tree.
RegularFiles(fsv) == {p \in DOMAIN fsv : fsv[p] \notin {NoFile, Dir}}

\* C28: applyFileRenames never renames a file onto a target path that holds a
\* different file at the moment of the rename, also when the target was
\* created after the proposal or comes from an earlier rename of the same
\* run: every file that exists before the call exists after it, at its path
\* or at the target of its op, and no file has disappeared.
C28_NoFileOverwritten ==
  [][ (last'.op = "files.apply" /\ ~last'.dryRun) =>
        /\ \A p \in RegularFiles(fs) :
             \/ fs'[p] = fs[p]
             \/ \E k \in DOMAIN fileEditset.fileOps :
                  /\ fileEditset.fileOps[k].oldPath = p
                  /\ fs'[fileEditset.fileOps[k].newPath] = fs[p]
        /\ Cardinality(RegularFiles(fs')) = Cardinality(RegularFiles(fs))
    ]_vars
-----------------------------------------------------------------------------
(* Termination of close() and shutdown() (SpecTtyClose).  The event loop    *)
(* runs every timer that is due and every continuation whose promise is     *)
(* settled, and the kernel ends a process that was sent SIGKILL; nothing    *)
(* obliges a ttyd to exit on SIGTERM or a page to load.                     *)

\* The tool calls of tty_start in this specification.
MaxSessions == 1

\* The close() slots that a running shutdown() may still need: one for every
\* session that can be registered and was not visited yet.
Reserve ==
  IF tty.shutdown.pc = "loop" THEN MaxSessions - Len(tty.shutdown.rest) ELSE 0

StartOne ==
  /\ Len(tty.calls) < MaxSessions
  /\ StartCall

TtydCloseAnyTime(s) ==
  /\ Len(tty.closes) + Reserve < MaxCloses
  /\ TtydClose(s)

ShutdownCall ==
  /\ Len(tty.closes) + MaxSessions <= MaxCloses
  /\ Shutdown

NextTtyClose ==
  \/ StartOne
  \/ \E c \in DOMAIN tty.calls : SpawnOk(c)
  \/ \E c \in DOMAIN tty.calls : SpawnFail(c)
  \/ \E c \in DOMAIN tty.calls : PageOk(c)
  \/ \E c \in DOMAIN tty.calls : PageFail(c)
  \/ \E s \in DOMAIN tty.servers : TtydExits(s)
  \/ \E s \in DOMAIN tty.servers : Reap(s)
  \/ \E s \in DOMAIN tty.servers : TtydCloseAnyTime(s)
  \/ \E c \in DOMAIN tty.closes : ContextClosed(c)
  \/ \E c \in DOMAIN tty.closes : TimerFires(c)
  \/ ShutdownCall
  \/ ShutdownNext

FairTtyClose ==
  /\ \A c \in 1..MaxCloses : WF_vars(c \in DOMAIN tty.closes /\ ContextClosed(c))
  /\ \A c \in 1..MaxCloses : WF_vars(c \in DOMAIN tty.closes /\ TimerFires(c))
  /\ \A s \in 1..(2 * MaxSessions) : WF_vars(s \in DOMAIN tty.servers /\ Reap(s))
  /\ WF_vars(ShutdownNext)

SpecTtyClose == InitTty /\ [][NextTtyClose]_vars /\ FairTtyClose

\* close() number c has been called and has resolved.
CloseCalled(c) == c \in DOMAIN tty.closes
CloseResolved(c) == c \in DOMAIN tty.closes /\ tty.closes[c].pc = "done"

\* C29: close() of a ttyd server eventually resolves in every state it can be
\* called in (before ready, while ttyd runs, after a previous close(), after
\* ttyd has exited on its own), and so session.close() and shutdown()
\* always complete.
C29_CloseEventuallyResolves ==
  /\ \A c \in 1..MaxCloses : CloseCalled(c) ~> CloseResolved(c)
  /\ (tty.shutdown.pc = "loop") ~> (tty.shutdown.pc = "done")
-----------------------------------------------------------------------------
(* What a rejected tty_start leaves behind *)

\* A close() of server s is under way.
Closing(s) ==
  \E k \in DOMAIN tty.closes :
    tty.closes[k].server = s /\ tty.closes[k].pc # "done"

\* C30: when callTool("tty_start") rejects, by timeout or by error, no session
\* created by that call is in the registry afterwards, and no ttyd started by
\* it keeps running: every registered session has an id that a successful
\* tty_start returned, and once the handler of a rejected call has ended
\* every ttyd it started has exited or is being closed.
C30_RejectedStartLeavesNothing ==
  /\ \A i \in tty.registry : tty.sessions[i].id \in tty.returned
  /\ \A c \in DOMAIN tty.calls :
       (tty.calls[c].settled = "rejected" /\ tty.calls[c].pc = "done") =>
         \A s \in Range(tty.calls[c].spawned) :
           tty.servers[s].os # "running" \/ Closing(s)


====
